---------------------------- MODULE Spec2Model ----------------------------
(***************************************************************************)
(* A model of the web2bot router (src/router.ts): the command registry     *)
(* derived from route patterns, the request dispatcher handleInteraction,  *)
(* signature validation, command-option resolution and the streaming edit  *)
(* bridge (RateLimitStream, wrapText, edit calls, cancellation).           *)
(*                                                                         *)
(* URLs, routes and names are TLA+ strings (TLC evaluates Len, \o and      *)
(* SubSeq on them).  Stream bytes and message text are sequences of        *)
(* character codes, because the control characters the bridge interprets   *)
(* (backspace in particular) have no TLA+ string escape.                   *)
(***************************************************************************)
EXTENDS Integers, Sequences, FiniteSets, TLC

(***************************************************************************)
(* String helpers (JavaScript String methods used by the source).          *)
(***************************************************************************)
Char(s, i) == SubSeq(s, i, i)

\* s.substring(n) with n counted as in JavaScript (from 0)
Substring(s, n) == SubSeq(s, n + 1, Len(s))

\* s.startsWith(p)
StartsWith(s, p) == Len(p) <= Len(s) /\ SubSeq(s, 1, Len(p)) = p

\* s.indexOf(p) counted from 1; 0 when p does not occur in s
IndexOf(s, p) ==
  LET hits == {i \in 1..(Len(s) - Len(p) + 1) : SubSeq(s, i, i + Len(p) - 1) = p}
  IN  IF hits = {} THEN 0 ELSE CHOOSE i \in hits : \A j \in hits : i <= j

\* s.split(sep) for a one-character separator
RECURSIVE Split(_, _)
Split(s, sep) ==
  LET i == IndexOf(s, sep)
  IN  IF i = 0 THEN <<s>>
      ELSE <<SubSeq(s, 1, i - 1)>> \o Split(SubSeq(s, i + 1, Len(s)), sep)

\* parts.join(sep)
RECURSIVE Join(_, _)
Join(parts, sep) ==
  IF parts = <<>> THEN ""
  ELSE IF Len(parts) = 1 THEN parts[1]
  ELSE parts[1] \o sep \o Join(Tail(parts), sep)

\* s.replace(pat, by) with a string pattern: the first occurrence only
Replace(s, pat, by) ==
  LET i == IndexOf(s, pat)
  IN  IF i = 0 THEN s
      ELSE SubSeq(s, 1, i - 1) \o by \o SubSeq(s, i + Len(pat), Len(s))

(***************************************************************************)
(* new URL(route, base): the pathname and the search parameters of a       *)
(* route or request target.                                                *)
(***************************************************************************)
\* the path as it is written in the route or target, up to the "?"
RawPathname(target) ==
  LET q == IndexOf(target, "?")
  IN  IF q = 0 THEN target ELSE SubSeq(target, 1, q - 1)

\* The URL parser percent-encodes, in a path, the space and every character
\* outside ASCII as its UTF-8 bytes: the letter e with acute accent (U+00E9),
\* which stands for the letters outside ASCII here, becomes %C3%A9.
PathEscapes == (" " :> "%20") @@ ("é" :> "%C3%A9")

RECURSIVE PercentEncode(_)
PercentEncode(s) ==
  IF s = "" THEN ""
  ELSE (IF Char(s, 1) \in DOMAIN PathEscapes THEN PathEscapes[Char(s, 1)] ELSE Char(s, 1))
         \o PercentEncode(Substring(s, 1))

\* url.pathname
UrlPathname(target) == PercentEncode(RawPathname(target))

\* the search without its leading question mark
UrlSearch(target) ==
  LET q == IndexOf(target, "?")
  IN  IF q = 0 THEN "" ELSE SubSeq(target, q + 1, Len(target))

\* url.searchParams: the list of <<key, value>> pairs of a search string
RECURSIVE PairsOf(_)
PairsOf(pieces) ==
  IF pieces = <<>> THEN <<>>
  ELSE LET p  == Head(pieces)
           eq == IndexOf(p, "=")
           kv == IF eq = 0 THEN <<p, "">>
                 ELSE <<SubSeq(p, 1, eq - 1), SubSeq(p, eq + 1, Len(p))>>
       IN  (IF p = "" THEN <<>> ELSE <<kv>>) \o PairsOf(Tail(pieces))

SearchParams(search) == IF search = "" THEN <<>> ELSE PairsOf(Split(search, "&"))

\* searchParams.has(name)
SearchHas(sp, name) == \E i \in 1..Len(sp) : sp[i][1] = name

\* searchParams.get(name): the first value, "" standing for null
SearchGet(sp, name) ==
  IF SearchHas(sp, name)
  THEN sp[CHOOSE i \in 1..Len(sp) :
            sp[i][1] = name /\ \A j \in 1..(i - 1) : sp[j][1] # name][2]
  ELSE ""

\* searchParams.set(name, value): the first pair of that name takes the
\* value, the other pairs of that name are removed, a new pair is appended
\* when there is none
RECURSIVE DropName(_, _)
DropName(sp, name) ==
  IF sp = <<>> THEN <<>>
  ELSE (IF Head(sp)[1] = name THEN <<>> ELSE <<Head(sp)>>) \o DropName(Tail(sp), name)

SearchSet(sp, name, value) ==
  IF ~SearchHas(sp, name) THEN Append(sp, <<name, value>>)
  ELSE LET i == CHOOSE k \in 1..Len(sp) :
                  sp[k][1] = name /\ \A j \in 1..(k - 1) : sp[j][1] # name
       IN  SubSeq(sp, 1, i - 1) \o <<(<<name, value>>)>>
             \o DropName(SubSeq(sp, i + 1, Len(sp)), name)

\* the serialisation of the search parameters (url.search without "?")
RECURSIVE SearchString(_)
SearchString(sp) ==
  IF sp = <<>> THEN ""
  ELSE sp[1][1] \o "=" \o sp[1][2]
         \o (IF Len(sp) = 1 THEN "" ELSE "&" \o SearchString(Tail(sp)))

(***************************************************************************)
(* The command registry: commandFromUri and the loop of router().          *)
(***************************************************************************)
\* \p{L}: the ASCII letters and one letter outside ASCII
Letters ==
  {"a","b","c","d","e","f","g","h","i","j","k","l","m","n","o","p","q","r",
   "s","t","u","v","w","x","y","z","A","B","C","D","E","F","G","H","I","J",
   "K","L","M","N","O","P","Q","R","S","T","U","V","W","X","Y","Z","é"}

Digits == {"0","1","2","3","4","5","6","7","8","9"}

\* NAME_REGEX: 1 to MaxNameLen characters, each a letter, a digit, "-" or "_"
MaxNameLen == 32

NameRegexTest(name) ==
  /\ Len(name) >= 1
  /\ Len(name) <= MaxNameLen
  /\ \A i \in 1..Len(name) : Char(name, i) \in Letters \cup Digits \cup {"-", "_"}

NoCommand == [name |-> "", options |-> <<>>, dropped |-> TRUE]

\* one option of a derived command; type 3 is ApplicationCommandOptionType.STRING
StringType == 3

Option(name, required) == [type |-> StringType, name |-> name, required |-> required]

RECURSIVE RequiredOptions(_)
RequiredOptions(params) ==
  IF params = <<>> THEN <<>>
  ELSE <<Option(Substring(Head(params), 1), TRUE)>> \o RequiredOptions(Tail(params))

RECURSIVE OptionalOptions(_)
OptionalOptions(sp) ==
  IF sp = <<>> THEN <<>>
  ELSE <<Option(Head(sp)[1], FALSE)>> \o OptionalOptions(Tail(sp))

\* a commandFromUri that lists the optional options first
commandFromUriOptionalFirst(route) ==
  LET segments == Split(UrlPathname(route), "/")
      name     == IF Len(segments) >= 2 THEN segments[2] ELSE ""
      params   == SubSeq(segments, 3, Len(segments))
  IN  IF ~NameRegexTest(name) THEN NoCommand
      ELSE [name    |-> name,
            options |-> OptionalOptions(SearchParams(UrlSearch(route)))
                          \o RequiredOptions(params),
            dropped |-> FALSE]

\* commandFromUri(uri, handler): NoCommand stands for undefined
commandFromUri(route) ==
  LET segments == Split(UrlPathname(route), "/")
      name     == IF Len(segments) >= 2 THEN segments[2] ELSE ""
      params   == SubSeq(segments, 3, Len(segments))
  IN  IF ~NameRegexTest(name) THEN NoCommand
      ELSE [name    |-> name,
            options |-> RequiredOptions(params)
                          \o OptionalOptions(SearchParams(UrlSearch(route))),
            dropped |-> FALSE]

\* the commands list of router(): one command per route that yields one, in
\* the order of the route map
RECURSIVE RouterCommands(_)
RouterCommands(routes) ==
  IF routes = <<>> THEN <<>>
  ELSE LET command == commandFromUri(Head(routes))
       IN  (IF command.dropped THEN <<>> ELSE <<command>>)
             \o RouterCommands(Tail(routes))

\* the handlers map of router(): command name -> handler.  A handler is
\* identified by its route, which router() stores as the handler's name; a
\* later route of the same command name overwrites an earlier one.
RECURSIVE RouterHandlers(_)
RouterHandlers(routes) ==
  IF routes = <<>> THEN <<>>
  ELSE LET n       == Len(routes)
           command == commandFromUri(routes[n])
           before  == RouterHandlers(SubSeq(routes, 1, n - 1))
       IN  IF command.dropped THEN before
           ELSE (command.name :> routes[n]) @@ before

(***************************************************************************)
(* Plain HTTP routing: the URLPattern handleInteraction builds from a      *)
(* command and its test against the request URL.                           *)
(***************************************************************************)
RECURSIVE PatternPathname(_, _)
PatternPathname(name, options) ==
  IF options = <<>> THEN "/" \o name
  ELSE LET n    == Len(options)
           last == options[n]
           head == PatternPathname(name, SubSeq(options, 1, n - 1))
       IN  IF last.required THEN head \o "/:" \o last.name ELSE head

RECURSIVE PatternSearchParts(_)
PatternSearchParts(options) ==
  IF options = <<>> THEN <<>>
  ELSE (IF Head(options).required THEN <<>>
        ELSE <<"{" \o Head(options).name \o "=:" \o Head(options).name \o "}?">>)
         \o PatternSearchParts(Tail(options))

PatternSearch(options) == Join(PatternSearchParts(options), "&")

\* the pathname pattern /name/:p1/.../:pN matches a path of 1+N segments,
\* the first equal to the name, the others non-empty (a named group matches
\* one or more characters other than "/")
PathnameMatches(name, options, pathname) ==
  LET pattern == Split(PatternPathname(name, options), "/")
      actual  == Split(pathname, "/")
  IN  /\ Len(actual) = Len(pattern)
      /\ \A i \in 1..Len(pattern) :
           IF StartsWith(pattern[i], ":") THEN actual[i] # ""
           ELSE actual[i] = pattern[i]

\* the search pattern {k1=:k1}?&...&{kM=:kM}?: M optional groups "k=value",
\* value non-empty and of any characters, joined by M-1 literal ampersands
RECURSIVE SearchMatches(_, _)
SearchMatches(keys, search) ==
  IF keys = <<>> THEN search = ""
  ELSE LET k     == Head(keys) \o "="
           \* the lengths the first group may take: 0 (absent) or key, "=" and
           \* at least one more character
           takes == {0} \cup {n \in (Len(k) + 1)..Len(search) : StartsWith(search, k)}
       IN  \E n \in takes :
             LET rest == SubSeq(search, n + 1, Len(search))
             IN  IF Len(keys) = 1 THEN rest = ""
                 ELSE /\ StartsWith(rest, "&")
                      /\ SearchMatches(Tail(keys), Substring(rest, 1))

RECURSIVE OptionalNames(_)
OptionalNames(options) ==
  IF options = <<>> THEN <<>>
  ELSE (IF Head(options).required THEN <<>> ELSE <<Head(options).name>>)
         \o OptionalNames(Tail(options))

\* pattern.test(request.url)
PatternTest(command, target) ==
  /\ PathnameMatches(command.name, command.options, UrlPathname(target))
  /\ SearchMatches(OptionalNames(command.options), UrlSearch(target))

\* pattern.exec(request.url).pathname.groups copied into params
RECURSIVE PathnameGroups(_, _)
PathnameGroups(pattern, actual) ==
  IF pattern = <<>> THEN <<>>
  ELSE LET rest == PathnameGroups(Tail(pattern), Tail(actual))
       IN  IF StartsWith(Head(pattern), ":")
           THEN (Substring(Head(pattern), 1) :> Head(actual)) @@ rest
           ELSE rest

\* params that also take the groups of the search
RouteParamsWithSearch(command, target) ==
  LET sp == SearchParams(UrlSearch(target))
  IN  PathnameGroups(Split(PatternPathname(command.name, command.options), "/"),
                     Split(UrlPathname(target), "/"))
        @@ [key \in {sp[i][1] : i \in 1..Len(sp)} |-> SearchGet(sp, key)]

RouteParams(command, target) ==
  PathnameGroups(Split(PatternPathname(command.name, command.options), "/"),
                 Split(UrlPathname(target), "/"))

\* the first command, in registry order, whose pattern matches; 0 when none
FirstMatch(commands, target) ==
  LET hits == {i \in 1..Len(commands) : PatternTest(commands[i], target)}
  IN  IF hits = {} THEN 0 ELSE CHOOSE i \in hits : \A j \in hits : i <= j

(***************************************************************************)
(* Message text: sequences of character codes.                             *)
(***************************************************************************)
BS == 8
LF == 10
FF == 12
CR == 13

\* a backspace that removes nothing
KeepLast(text) == text

\* text.slice(0, -1): all but the last element, nothing of an empty text
DropLast(text) == IF text = <<>> THEN <<>> ELSE SubSeq(text, 1, Len(text) - 1)

\* a wrapText that keeps the CR of a bare CR at the head of the new line
RECURSIVE WrapLoopKeepingCR(_, _, _, _)
WrapLoopKeepingCR(text, i, result, currentLine) ==
  IF i > Len(text) THEN result \o currentLine
  ELSE IF text[i] = BS
         THEN WrapLoopKeepingCR(text, i + 1, result, DropLast(currentLine))
  ELSE IF text[i] = CR /\ i + 1 <= Len(text) /\ text[i + 1] = LF
         THEN WrapLoopKeepingCR(text, i + 2, result \o currentLine \o <<CR, LF>>, <<>>)
  ELSE IF text[i] = CR
         THEN WrapLoopKeepingCR(text, i + 1, result, <<CR>>)
  ELSE IF text[i] = FF
         THEN WrapLoopKeepingCR(text, i + 1, <<>>, <<>>)
  ELSE WrapLoopKeepingCR(text, i + 1, result, Append(currentLine, text[i]))

\* the loop of wrapText from index i (counted from 1) on
RECURSIVE WrapLoop(_, _, _, _)
WrapLoop(text, i, result, currentLine) ==
  IF i > Len(text) THEN result \o currentLine
  ELSE IF text[i] = BS
         THEN WrapLoop(text, i + 1, result, DropLast(currentLine))
  ELSE IF text[i] = CR /\ i + 1 <= Len(text) /\ text[i + 1] = LF
         THEN WrapLoop(text, i + 2, result \o currentLine \o <<CR, LF>>, <<>>)
  ELSE IF text[i] = CR
         THEN WrapLoop(text, i + 1, result, <<>>)
  ELSE IF text[i] = FF
         THEN WrapLoop(text, i + 1, <<>>, <<>>)
  ELSE WrapLoop(text, i + 1, result, Append(currentLine, text[i]))

wrapText(text) == WrapLoop(text, 1, <<>>, <<>>)

\* text.slice(start): a negative start counts from the end; -0 is 0
Slice(text, start) ==
  LET n    == Len(text)
      from == IF start < 0 THEN (IF n + start > 0 THEN n + start ELSE 0)
              ELSE (IF start < n THEN start ELSE n)
  IN  SubSeq(text, from + 1, n)

\* wrapText(chunk).slice(-1 * characterLimit)
TrimContent(text, limit) == Slice(wrapText(text), (-1) * limit)

\* TextDecoderStream on the ASCII bytes the model's handlers send: each
\* byte decodes to the character of the same code
Decode(bytes) == [i \in 1..Len(bytes) |-> bytes[i]]

RECURSIVE Flatten(_)
Flatten(chunks) == IF chunks = <<>> THEN <<>> ELSE Head(chunks) \o Flatten(Tail(chunks))

(***************************************************************************)
(* Command-interaction resolution (handleInteraction, the option loops).   *)
(* An option is a record [name, value].                                    *)
(***************************************************************************)
RemoveAt(seq, k) == SubSeq(seq, 1, k - 1) \o SubSeq(seq, k + 1, Len(seq))

\* a while loop that sets the search parameter and keeps the option
RECURSIVE OptionalPassKeeping(_, _, _)
OptionalPassKeeping(searchParams, options, optionCount) ==
  IF optionCount = 0 THEN [searchParams |-> searchParams, options |-> options]
  ELSE LET option == options[optionCount]
       IN  IF SearchHas(searchParams, option.name)
           THEN OptionalPassKeeping(SearchSet(searchParams, option.name, option.value),
                                    options, optionCount - 1)
           ELSE OptionalPassKeeping(searchParams, options, optionCount - 1)

\* a pass from the first option to the last that moves on after a splice
RECURSIVE ForwardFrom(_, _, _)
ForwardFrom(searchParams, options, index) ==
  IF index > Len(options) THEN [searchParams |-> searchParams, options |-> options]
  ELSE LET option == options[index]
       IN  IF SearchHas(searchParams, option.name)
           THEN ForwardFrom(SearchSet(searchParams, option.name, option.value),
                            RemoveAt(options, index), index + 1)
           ELSE ForwardFrom(searchParams, options, index + 1)

OptionalPassForward(searchParams, options, optionCount) ==
  ForwardFrom(searchParams, options, 1)

\* the while loop: from the last option to the first, an option whose name
\* is a search parameter of the route sets it and is spliced out
RECURSIVE OptionalPass(_, _, _)
OptionalPass(searchParams, options, optionCount) ==
  IF optionCount = 0 THEN [searchParams |-> searchParams, options |-> options]
  ELSE LET option == options[optionCount]
       IN  IF SearchHas(searchParams, option.name)
           THEN OptionalPass(SearchSet(searchParams, option.name, option.value),
                             RemoveAt(options, optionCount), optionCount - 1)
           ELSE OptionalPass(searchParams, options, optionCount - 1)

\* the forEach loop: every remaining option is recorded in params and
\* replaces the first occurrence of ":name" in the pathname
RECURSIVE RequiredPass(_, _, _)
RequiredPass(options, params, pathname) ==
  IF options = <<>> THEN [params |-> params, pathname |-> pathname]
  ELSE LET option == Head(options)
       IN  RequiredPass(Tail(options),
                        (option.name :> option.value) @@ params,
                        Replace(pathname, ":" \o option.name, option.value))

\* params and the URL of the synthetic request for a route and the options
\* of an interaction
ResolveOptions(route, options) ==
  LET first  == OptionalPass(SearchParams(UrlSearch(route)), options, Len(options))
      second == RequiredPass(first.options, <<>>, UrlPathname(route))
  IN  [params       |-> second.params,
       pathname     |-> second.pathname,
       searchParams |-> first.searchParams,
       remaining    |-> first.options]

\* url.href without its origin
Href(pathname, searchParams) ==
  pathname \o (IF searchParams = <<>> THEN "" ELSE "?" \o SearchString(searchParams))

(***************************************************************************)
(* Signature validation.  A header value is Null (absent) or Some(text).   *)
(***************************************************************************)
Null == <<>>

Some(v) == <<v>>

HexDigits ==
  ("0" :> 0) @@ ("1" :> 1) @@ ("2" :> 2) @@ ("3" :> 3) @@ ("4" :> 4) @@
  ("5" :> 5) @@ ("6" :> 6) @@ ("7" :> 7) @@ ("8" :> 8) @@ ("9" :> 9) @@
  ("a" :> 10) @@ ("b" :> 11) @@ ("c" :> 12) @@ ("d" :> 13) @@ ("e" :> 14) @@
  ("f" :> 15)

IsHex(c) == c \in DOMAIN HexDigits

\* parseInt(val, 16) stored in a Uint8Array: the leading hexadecimal digits
\* of a piece of one or two characters; NaN is stored as 0
ParseHexByte(val) ==
  IF ~IsHex(Char(val, 1)) THEN 0
  ELSE IF Len(val) = 2 /\ IsHex(Char(val, 2))
         THEN 16 * HexDigits[Char(val, 1)] + HexDigits[Char(val, 2)]
  ELSE HexDigits[Char(val, 1)]

\* hex.match(/.{1,2}/g): the pieces of two characters, the last of one
\* when the length is odd
RECURSIVE HexPieces(_)
HexPieces(hex) ==
  IF Len(hex) <= 2 THEN <<hex>>
  ELSE <<SubSeq(hex, 1, 2)>> \o HexPieces(SubSeq(hex, 3, Len(hex)))

\* hexToUint8Array throws a TypeError on a null header (null.match) and on
\* an empty one (match returns null)
HexThrows(header) == header = Null \/ header[1] = ""

hexToUint8Array(header) ==
  LET pieces == HexPieces(header[1])
  IN  [i \in 1..Len(pieces) |-> ParseHexByte(pieces[i])]

\* The Ed25519 library (outside the repository): the signature the platform
\* makes over timestamp + body with the configured key is GoodSignature; a
\* signature of another length makes the library either throw or answer
\* false, depending on the library.
GoodSignature == <<192, 222>>

VerifyOutcomes(signature) ==
  IF Len(signature) # Len(GoodSignature) THEN {"throw", "false"}
  ELSE IF signature = GoodSignature THEN {"true"}
  ELSE {"false"}

\* a validate that does not look at the method
ValidateOutcomesAnyMethod(request, endpoint) ==
  IF UrlPathname(request.target) # endpoint THEN {"error"}
  ELSE IF HexThrows(request.signature) THEN {"throw"}
  ELSE {IF v = "true" THEN "body" ELSE IF v = "false" THEN "error" ELSE "throw" :
          v \in VerifyOutcomes(hexToUint8Array(request.signature))}

\* validate(request): the outcomes "error", "throw" and "body"
ValidateOutcomes(request, endpoint) ==
  IF request.method # "POST" THEN {"error"}
  ELSE IF UrlPathname(request.target) # endpoint THEN {"error"}
  ELSE IF HexThrows(request.signature) THEN {"throw"}
  ELSE {IF v = "true" THEN "body" ELSE IF v = "false" THEN "error" ELSE "throw" :
          v \in VerifyOutcomes(hexToUint8Array(request.signature))}

\* a validate that reads the body before it looks at the method and the path
ValidateReadsBodyFirst(request, endpoint) == TRUE

\* whether validate reaches request.text()
ValidateReadsBody(request, endpoint) ==
  request.method = "POST" /\ UrlPathname(request.target) = endpoint

(***************************************************************************)
(* The Link header of a handler's response, displayed as buttons.          *)
(***************************************************************************)
\* s.trim(), for the spaces of a header value
RECURSIVE Trim(_)
Trim(s) ==
  IF StartsWith(s, " ") THEN Trim(Substring(s, 1))
  ELSE IF Len(s) > 0 /\ Char(s, Len(s)) = " " THEN Trim(SubSeq(s, 1, Len(s) - 1))
  ELSE s

\* target.match(/<([^>]*)>/): what stands between the first "<" and the
\* first ">" after it; Null when the pattern does not match
MatchAngle(target) ==
  LET i == IndexOf(target, "<")
  IN  IF i = 0 THEN Null
      ELSE LET rest == SubSeq(target, i + 1, Len(target))
               j    == IndexOf(rest, ">")
           IN  IF j = 0 THEN Null ELSE Some(SubSeq(rest, 1, j - 1))

\* the percent escapes that occur in the links of the model
UriEscapes == ("%2F" :> "/") @@ ("%20" :> " ")

\* decodeURIComponent(uri); an absent uri is decoded as the text "undefined"
RECURSIVE DecodeText(_)
DecodeText(s) ==
  IF s = "" THEN ""
  ELSE IF Len(s) >= 3 /\ SubSeq(s, 1, 3) \in DOMAIN UriEscapes
       THEN UriEscapes[SubSeq(s, 1, 3)] \o DecodeText(SubSeq(s, 4, Len(s)))
       ELSE Char(s, 1) \o DecodeText(Substring(s, 1))

decodeURIComponent(uri) == IF uri = Null THEN "undefined" ELSE DecodeText(uri[1])

\* value.trim().replace(/^"(.*)"$/, "$1")
Unquote(value) ==
  LET v == Trim(value)
  IN  IF Len(v) >= 2 /\ Char(v, 1) = "\"" /\ Char(v, Len(v)) = "\""
      THEN SubSeq(v, 2, Len(v) - 1)
      ELSE v

\* params.forEach: title sets the label, disabled disables the button
RECURSIVE ApplyLinkParams(_, _)
ApplyLinkParams(component, params) ==
  IF params = <<>> THEN component
  ELSE LET pieces   == Split(Trim(Head(params)), "=")
           key      == pieces[1]
           value    == Unquote(IF Len(pieces) >= 2 THEN pieces[2] ELSE "")
           labelled == IF key = "title"
                       THEN ("label" :> value) @@ component
                       ELSE component
           disabled == IF key = "disabled"
                       THEN ("disabled" :> TRUE) @@ labelled
                       ELSE labelled
       IN  ApplyLinkParams(disabled, Tail(params))

\* a button that is always given a custom_id
LinkButtonCustomOnly(linkValue) ==
  LET parts == Split(linkValue, ";")
      href  == decodeURIComponent(MatchAngle(parts[1]))
  IN  ApplyLinkParams([type |-> 2, style |-> 1, custom_id |-> href], Tail(parts))

\* the button of one link value: <uri-reference>; param1=value1; ...
LinkButton(linkValue) ==
  LET parts == Split(linkValue, ";")
      href  == decodeURIComponent(MatchAngle(parts[1]))
      base  == IF StartsWith(href, "/")
               THEN [type |-> 2, style |-> 1, custom_id |-> Substring(href, 1)]
               ELSE [type |-> 2, style |-> 5, url |-> href]
  IN  ApplyLinkParams(base, Tail(parts))

\* headers.get("Link")?.split(",").map(...) || []
LinkComponents(link) ==
  IF link = Null THEN <<>>
  ELSE LET values == Split(link[1], ",")
       IN  [i \in 1..Len(values) |-> LinkButton(values[i])]

\* message.components after the handler has answered: one action row when
\* there are buttons
MessageComponents(link) ==
  IF LinkComponents(link) = <<>> THEN <<>>
  ELSE << [type |-> 1, components |-> LinkComponents(link)] >>

(***************************************************************************)
(* The router instance of the model and the requests sent to it.           *)
(***************************************************************************)
\* the route map given to router(); "/" yields no command (empty name)
Routes == <<"/hello/:name?age=", "/count?from=1&step=1", "/ping", "/">>

commands == RouterCommands(Routes)

handlers == RouterHandlers(Routes)

\* options.rateLimit, in ticks of the model's clock (one tick is 500 ms)
rateLimit == 2

\* the values of options.endpoint and options.characterLimit tried
Endpoints == {"/", "/ping"}

CharacterLimits == {0, 2}

\* InteractionType and InteractionResponseType
PING == 1
APPLICATION_COMMAND == 2
MESSAGE_COMPONENT == 3
PONG == 1
ACK_WITH_SOURCE == 5

NoData == [name |-> "", options |-> <<>>]

Opt(name, value) == [name |-> name, value |-> value]

\* member is Null for an interaction in a direct message
Interactions ==
  { [type |-> PING, data |-> NoData, member |-> Null, token |-> "tok"],
    [type |-> MESSAGE_COMPONENT, data |-> NoData, member |-> Some("u1"), token |-> "tok"],
    [type |-> APPLICATION_COMMAND,
     data |-> [name |-> "hello", options |-> <<Opt("age", "9"), Opt("name", "Ann")>>],
     member |-> Some("u1"), token |-> "tok"],
    [type |-> APPLICATION_COMMAND,
     data |-> [name |-> "gone", options |-> <<>>],
     member |-> Some("u1"), token |-> "tok"],
    [type |-> APPLICATION_COMMAND,
     data |-> [name |-> "hello", options |-> <<Opt("name", "Ann")>>],
     member |-> Null, token |-> "tok"] }

Targets == {"/hello/Ann", "/hello/Ann?age=9", "/count", "/count?from=1&step=2",
            "/ping", "/", "/nope"}

\* X-Signature-Ed25519: absent, empty, not hexadecimal, too short, of the
\* right length but wrong, and right
Signatures == {Null, Some(""), Some("zz"), Some("0a"), Some("0a0b"), Some("c0de")}

PingInteraction == [type |-> PING, data |-> NoData, member |-> Null, token |-> "tok"]

\* the body of a request is the JSON text of an interaction; a request whose
\* signature is not the right one carries the ping
Requests ==
  { r \in [method : {"GET", "POST"}, target : Targets, signature : Signatures,
           interaction : Interactions] :
      /\ r.signature # Some("c0de") => r.interaction = PingInteraction
      /\ r.signature \notin {Null, Some("c0de")} => r.method = "POST" }

(***************************************************************************)
(* State.                                                                  *)
(***************************************************************************)
VARIABLES
  endpoint,        \* options.endpoint
  characterLimit,  \* options.characterLimit
  request,         \* the request given to handleInteraction
  pc,              \* where handleInteraction is: start, validated,
                   \* awaitHandler, returned, threw
  response,        \* the Response handleInteraction returned
  calls,           \* the handler invocations, in order
  handlerResponse, \* the Response the handler returned
  validations,     \* how many times validate was called
  bodyReads,       \* how many times request.text() was called
  message,         \* the Message of the interaction
  signal,          \* the AbortController: none, created, aborted
  bridge,          \* none, streaming (the pipeline), blob (an attachment), done
  bodyOpen,        \* the handler's body stream is not closed yet
  sent,            \* how many chunks the handler has enqueued
  inQ,             \* chunks enqueued by the handler, not yet transformed
  buffer,          \* RateLimitStream: buffer
  timeout,         \* RateLimitStream: timeout, the time the timer fires at
  flushed,         \* RateLimitStream: flush() has run
  outQ,            \* flushes not yet taken by the edit transform
  editing,         \* the edit call awaiting its response
  now,             \* the clock, in ticks
  hist,            \* what happened, for the properties
  subject,         \* the input of a function examined on its own
  result           \* its output, Null before it is computed

vars == <<endpoint, characterLimit, request, pc, response, calls, handlerResponse,
          validations, bodyReads, message, signal, bridge, bodyOpen, sent, inQ,
          buffer, timeout, flushed, outQ, editing, now, hist, subject, result>>

(***************************************************************************)
(* Bounds of the model.                                                    *)
(***************************************************************************)
\* how many chunks a handler's body stream delivers at most
MaxChunks == 3

\* the last tick of the clock
MaxTime == 4

\* the chunks a handler may enqueue (ASCII bytes): "a" and "bcd"
Chunks == {<<97>>, <<98, 99, 100>>}

\* the status of the platform's answer to an edit call
EditStatuses == {200, 404, 500}

(***************************************************************************)
(* Responses and messages.                                                 *)
(***************************************************************************)
NewMessage == [content |-> <<>>, embeds |-> <<>>, components |-> <<>>, attachments |-> <<>>]

InvalidRequest == [status |-> 401, json |-> [error |-> "Invalid Request"]]

BadRequestResponse == [status |-> 400, json |-> [error |-> "bad request"]]

PongResponse == [status |-> 200, json |-> [type |-> PONG]]

AckResponse(msg) == [status |-> 200, json |-> [type |-> ACK_WITH_SOURCE, data |-> msg]]

\* links as they are meant: the target as written and as decoded, the
\* title (Null for none), whether the title is quoted and whether the link
\* is disabled
NextPageLink ==
  [written |-> "/next", decoded |-> "/next", title |-> Some("Next page"),
   quoted |-> TRUE, disabled |-> TRUE]

GoLink ==
  [written |-> "https://e.x/a", decoded |-> "https://e.x/a", title |-> Some("Go"),
   quoted |-> FALSE, disabled |-> FALSE]

EscapedLink ==
  [written |-> "/a%20b", decoded |-> "/a b", title |-> Null,
   quoted |-> FALSE, disabled |-> FALSE]

OffLink ==
  [written |-> "https://e.x/a", decoded |-> "https://e.x/a", title |-> Null,
   quoted |-> FALSE, disabled |-> TRUE]

\* the lists of links a response may carry
LinkLists == { <<>>, <<OffLink>>, <<NextPageLink, GoLink, EscapedLink>> }

\* a link as a link value of the header
LinkValue(link) ==
  "<" \o link.written \o ">"
    \o (IF link.title = Null THEN ""
        ELSE "; title=" \o (IF link.quoted THEN "\"" \o link.title[1] \o "\""
                                            ELSE link.title[1]))
    \o (IF link.disabled THEN "; disabled" ELSE "")

\* the Link header of a response with these links, Null for no links
LinkHeader(links) ==
  IF links = <<>> THEN Null
  ELSE Some(Join([i \in 1..Len(links) |-> LinkValue(links[i])], ", "))

\* the links of the handler's response: none, or those the subject names
HandlerLinks == IF subject = Null THEN <<>> ELSE subject[1].links

\* what a handler may answer: with or without Content-Disposition
HandlerResponses ==
  { [status |-> 200, by |-> "handler", disposition |-> d,
     links |-> HandlerLinks, link |-> LinkHeader(HandlerLinks)] :
      d \in {Null, Some("attachment")} }

\* headers.get("Content-Disposition")?.match(/attachment.../)
IsAttachment(disposition) ==
  disposition # Null /\ IndexOf(disposition[1], "attachment") # 0

\* edit(token, message): the PATCH call, by its target and its body
EditCall(token, msg, form) ==
  [token |-> token, id |-> "@original", form |-> form, body |-> msg]

NoHist ==
  [edits        |-> 0,      \* edit calls issued
   answers      |-> 0,      \* edit calls answered
   statuses     |-> {},     \* statuses answered to edit calls
   abortCause   |-> Null,   \* the status whose answer triggered the signal
   editsAtAbort |-> 0,      \* edit calls issued when the signal was triggered
   bytesInPipe  |-> 0,      \* bytes not yet edited when the signal was triggered
   bytesAfter   |-> 0,      \* bytes the handler enqueued after the signal
   flushes      |-> 0,      \* non-empty flushes of the rate-limit buffer
   received     |-> <<>>,   \* the bytes RateLimitStream.transform was given
   emitted      |-> <<>>,   \* the chunks the rate-limit buffer enqueued
   timers       |-> 0,      \* timers started and neither fired nor cleared
   emittedAtEnd |-> Null,   \* how many chunks were enqueued when flush() returned
   matched      |-> Null,   \* the command the routing loop matched, 0 for none
   outcome      |-> "none", \* what validate answered: error, throw, body
   batch        |-> <<>>,   \* chunks transformed since the last flush, with
                            \* the time each was transformed at
   batchStart   |-> 0,      \* when the first chunk of the batch was transformed
   lastFlush    |-> Null ]  \* the last flush: bytes, batch, start, at, cause

(***************************************************************************)
(* handleInteraction.                                                      *)
(***************************************************************************)
\* handleInteraction has a request, nothing has happened yet
Fresh ==
  /\ response = Null
  /\ calls = <<>>
  /\ handlerResponse = Null
  /\ validations = 0
  /\ bodyReads = 0
  /\ message = NewMessage
  /\ signal = "none"
  /\ bridge = "none"
  /\ bodyOpen = FALSE
  /\ sent = 0
  /\ inQ = <<>>
  /\ buffer = <<>>
  /\ timeout = Null
  /\ flushed = FALSE
  /\ outQ = <<>>
  /\ editing = Null
  /\ now = 0
  /\ hist = NoHist

Init ==
  /\ endpoint \in Endpoints
  /\ characterLimit \in CharacterLimits
  /\ request \in Requests
  /\ pc = "start"
  /\ Fresh
  /\ subject = Null
  /\ result = Null

streamVars == <<bodyOpen, sent, inQ, buffer, timeout, flushed, outQ, editing, now>>

\* a routing loop that validates the request before it calls the handler
RoutePlainValidating ==
  /\ pc = "start"
  /\ FirstMatch(commands, request.target) # 0
  /\ LET command == commands[FirstMatch(commands, request.target)]
     IN  \E r \in HandlerResponses :
           /\ calls' = Append(calls, [handler |-> handlers[command.name],
                                      url     |-> request.target,
                                      params  |-> RouteParams(command, request.target),
                                      user    |-> Null])
           /\ handlerResponse' = Some(r)
           /\ response' = Some(r)
  /\ pc' = "returned"
  /\ validations' = validations + 1
  /\ hist' = [hist EXCEPT !.matched = Some(FirstMatch(commands, request.target))]
  /\ UNCHANGED <<subject, result, endpoint, characterLimit, request, bodyReads, message,
                 signal, bridge>>
  /\ UNCHANGED streamVars

\* Plain HTTP routing: the first command whose pattern matches the request
\* URL gets the request; its handler's response is the response.
RoutePlain ==
  /\ pc = "start"
  /\ FirstMatch(commands, request.target) # 0
  /\ LET command == commands[FirstMatch(commands, request.target)]
     IN  \E r \in HandlerResponses :
           /\ calls' = Append(calls, [handler |-> handlers[command.name],
                                      url     |-> request.target,
                                      params  |-> RouteParams(command, request.target),
                                      user    |-> Null])
           /\ handlerResponse' = Some(r)
           /\ response' = Some(r)
  /\ pc' = "returned"
  /\ hist' = [hist EXCEPT !.matched = Some(FirstMatch(commands, request.target))]
  /\ UNCHANGED <<subject, result, endpoint, characterLimit, request, validations, bodyReads, message,
                 signal, bridge>>
  /\ UNCHANGED streamVars

\* No route matches: validate(request); an error is answered with 401, an
\* exception of validate rejects the promise handleInteraction returned.
Validate ==
  /\ pc = "start"
  /\ FirstMatch(commands, request.target) = 0
  /\ validations' = validations + 1
  /\ bodyReads' = bodyReads + (IF ValidateReadsBody(request, endpoint) THEN 1 ELSE 0)
  /\ \E outcome \in ValidateOutcomes(request, endpoint) :
       /\ pc' = CASE outcome = "error" -> "returned"
                  [] outcome = "throw" -> "threw"
                  [] OTHER             -> "validated"
       /\ response' = IF outcome = "error" THEN Some(InvalidRequest) ELSE response
       /\ hist' = [hist EXCEPT !.outcome = outcome, !.matched = Some(0)]
  /\ UNCHANGED <<subject, result, endpoint, characterLimit, request, calls, handlerResponse, message,
                 signal, bridge>>
  /\ UNCHANGED streamVars

\* a ping that is answered with the ACK of a command
PingAcks ==
  /\ pc = "validated"
  /\ request.interaction.type = PING
  /\ response' = Some(AckResponse(message))
  /\ pc' = "returned"
  /\ UNCHANGED <<subject, result, endpoint, characterLimit, request, calls, handlerResponse,
                 validations, bodyReads, message, signal, bridge, hist>>
  /\ UNCHANGED streamVars

\* A ping is answered with a pong.
Ping ==
  /\ pc = "validated"
  /\ request.interaction.type = PING
  /\ response' = Some(PongResponse)
  /\ pc' = "returned"
  /\ UNCHANGED <<subject, result, endpoint, characterLimit, request, calls, handlerResponse, validations,
                 bodyReads, message, signal, bridge, hist>>
  /\ UNCHANGED streamVars

\* An interaction that is neither a ping nor a command: bad request.
BadRequest ==
  /\ pc = "validated"
  /\ request.interaction.type \notin {PING, APPLICATION_COMMAND}
  /\ response' = Some(BadRequestResponse)
  /\ pc' = "returned"
  /\ UNCHANGED <<subject, result, endpoint, characterLimit, request, calls, handlerResponse, validations,
                 bodyReads, message, signal, bridge, hist>>
  /\ UNCHANGED streamVars

\* handler.name of a command name that is not in handlers: a TypeError
UnknownCommandThrows(name) == name \notin DOMAIN handlers

\* member!.user!.id of an interaction without a member: a TypeError
NoMemberThrows(interaction) == interaction.member = Null

\* A command: the handler of its name, the options resolved into params and
\* the URL of a new request, the placeholder content, the AbortController,
\* and the handler invoked with the new request.
CommandInvoke ==
  /\ pc = "validated"
  /\ request.interaction.type = APPLICATION_COMMAND
  /\ LET interaction == request.interaction
         name        == interaction.data.name
     IN  IF UnknownCommandThrows(name)
         THEN /\ pc' = "threw"
              /\ UNCHANGED <<calls, message, signal>>
         ELSE LET route    == handlers[name]
                  resolved == ResolveOptions(route, interaction.data.options)
              IN  /\ message' = [NewMessage EXCEPT !.content = <<CR>>]
                  /\ signal' = "created"
                  /\ IF NoMemberThrows(interaction)
                     THEN /\ pc' = "threw"
                          /\ UNCHANGED calls
                     ELSE /\ pc' = "awaitHandler"
                          /\ calls' = Append(calls,
                               [handler |-> route,
                                url     |-> Href(resolved.pathname, resolved.searchParams),
                                params  |-> resolved.params,
                                user    |-> interaction.member])
  /\ UNCHANGED <<subject, result, endpoint, characterLimit, request, response, handlerResponse,
                 validations, bodyReads, bridge, hist>>
  /\ UNCHANGED streamVars

\* a bridge that is set up without the ACK being returned: the ACK would
\* wait for the end of the body
HandlerReturnsAfterBody ==
  /\ pc = "awaitHandler"
  /\ bridge = "none"
  /\ \E r \in HandlerResponses :
       /\ handlerResponse' = Some(r)
       /\ bridge' = IF IsAttachment(r.disposition) THEN "blob" ELSE "streaming"
  /\ bodyOpen' = TRUE
  /\ UNCHANGED <<subject, result, endpoint, characterLimit, request, pc, response, calls,
                 validations, bodyReads, message, signal, hist>>
  /\ UNCHANGED <<sent, inQ, buffer, timeout, flushed, outQ, editing, now>>

\* The handler's response arrives: an attachment is read whole (blob), any
\* other body is piped through the rate-limit buffer into the edit
\* transform; either way the ACK is returned at once.
HandlerReturns ==
  /\ pc = "awaitHandler"
  /\ \E r \in HandlerResponses :
       /\ handlerResponse' = Some(r)
       /\ bridge' = IF IsAttachment(r.disposition) THEN "blob" ELSE "streaming"
       /\ message' = [message EXCEPT !.components = MessageComponents(r.link)]
  /\ bodyOpen' = TRUE
  /\ response' = Some(AckResponse(message'))
  /\ pc' = "returned"
  /\ UNCHANGED <<subject, result, endpoint, characterLimit, request, calls, validations, bodyReads,
                 signal, hist>>
  /\ UNCHANGED <<sent, inQ, buffer, timeout, flushed, outQ, editing, now>>

(***************************************************************************)
(* The streaming edit bridge.                                              *)
(***************************************************************************)
ByteCount(chunks) == Len(Flatten(chunks))

\* a transform that restarts the timer at every chunk
NextTimeoutRestarted(pending, time) == Some(time + rateLimit)

\* RateLimitStream.transform: the timer is started only when none is pending
NextTimeout(pending, time) == IF pending = Null THEN Some(time + rateLimit) ELSE pending

\* the edit transform's update of message.content for a decoded chunk
EditTransform(msg, chunk, limit) ==
  [msg EXCEPT !.content = TrimContent(msg.content \o chunk, limit)]

\* an edit that aborts on 410 Gone instead of 404
AbortsOnGone(status) == status = 410

\* an edit that aborts on every failure status
AbortsOnAnyFailure(status) == status >= 400

\* whether the answer to an edit call triggers abortController.abort()
AbortsOn(status) == status = 404

\* an edit transform that does not wait for the answer of the edit before
PumpWithoutWaiting(q, call, msg, h) ==
  IF q = <<>>
  THEN [outQ |-> q, editing |-> call, message |-> msg, hist |-> h]
  ELSE LET edited == EditTransform(msg, Decode(Head(q)), characterLimit)
       IN  [outQ    |-> Tail(q),
            editing |-> Some(EditCall(request.interaction.token, edited, FALSE)),
            message |-> edited,
            hist    |-> [h EXCEPT !.edits = @ + 1]]

\* Downstream of the rate-limit buffer: while no edit call awaits its answer,
\* the next flush is decoded and, unless its text is empty, updates the
\* message and is sent as an edit call.  The result is the new outQ,
\* editing, message and hist.
RECURSIVE Pump(_, _, _, _)
Pump(q, call, msg, h) ==
  IF call # Null \/ q = <<>>
  THEN [outQ |-> q, editing |-> call, message |-> msg, hist |-> h]
  ELSE LET chunk == Decode(Head(q))
       IN  IF chunk = <<>> THEN Pump(Tail(q), call, msg, h)
           ELSE LET edited == EditTransform(msg, chunk, characterLimit)
                IN  [outQ    |-> Tail(q),
                     editing |-> Some(EditCall(request.interaction.token, edited, FALSE)),
                     message |-> edited,
                     hist    |-> [h EXCEPT !.edits = @ + 1]]

\* the record of a flush, for the properties
FlushRecord(cause) ==
  [bytes |-> buffer, batch |-> hist.batch, start |-> hist.batchStart,
   at |-> now, cause |-> cause]

Flushed(h, cause) ==
  [h EXCEPT !.lastFlush = Some(FlushRecord(cause)),
            !.batch = <<>>,
            !.emitted = Append(@, buffer),
            !.flushes = @ + (IF buffer = <<>> THEN 0 ELSE 1)]

\* The handler enqueues a chunk into its body stream.
HandlerEnqueue ==
  /\ bridge \in {"streaming", "blob"}
  /\ bodyOpen
  /\ sent < MaxChunks
  /\ \E chunk \in Chunks :
       /\ inQ' = Append(inQ, chunk)
       /\ hist' = IF signal = "aborted"
                  THEN [hist EXCEPT !.bytesAfter = @ + Len(chunk)]
                  ELSE hist
  /\ sent' = sent + 1
  /\ UNCHANGED <<subject, result, endpoint, characterLimit, request, pc, response, calls, handlerResponse,
                 validations, bodyReads, message, signal, bridge>>
  /\ UNCHANGED <<bodyOpen, buffer, timeout, flushed, outQ, editing, now>>

\* The handler closes its body stream.
HandlerClose ==
  /\ bridge \in {"streaming", "blob"}
  /\ bodyOpen
  /\ bodyOpen' = FALSE
  /\ UNCHANGED <<subject, result, endpoint, characterLimit, request, pc, response, calls, handlerResponse,
                 validations, bodyReads, message, signal, bridge, hist>>
  /\ UNCHANGED <<sent, inQ, buffer, timeout, flushed, outQ, editing, now>>

\* RateLimitStream.transform(chunk): the chunk is appended to the buffer and
\* a timer is started unless one is pending.  The chunk is written when the
\* readable side has been pulled, that is when no flush waits downstream.
Transform ==
  /\ bridge = "streaming"
  /\ inQ # <<>>
  /\ outQ = <<>>
  /\ buffer' = buffer \o Head(inQ)
  /\ timeout' = NextTimeout(timeout, now)
  /\ inQ' = Tail(inQ)
  /\ hist' = [hist EXCEPT !.batch = Append(@, [bytes |-> Head(inQ), at |-> now]),
                          !.received = @ \o Head(inQ),
                          !.timers = @ + (IF NextTimeout(timeout, now) = timeout
                                          THEN 0 ELSE 1),
                          !.batchStart = IF hist.batch = <<>> THEN now ELSE @]
  /\ UNCHANGED <<subject, result, endpoint, characterLimit, request, pc, response, calls, handlerResponse,
                 validations, bodyReads, message, signal, bridge>>
  /\ UNCHANGED <<bodyOpen, sent, flushed, outQ, editing, now>>

\* The timer fires: the whole buffer is enqueued as one chunk.
TimerFire ==
  /\ bridge = "streaming"
  /\ timeout = Some(now)
  /\ LET fired == [hist EXCEPT !.timers = @ - 1]
         next  == Pump(Append(outQ, buffer), editing, message, Flushed(fired, "timer"))
     IN  /\ outQ' = next.outQ
         /\ editing' = next.editing
         /\ message' = next.message
         /\ hist' = next.hist
  /\ buffer' = <<>>
  /\ timeout' = Null
  /\ UNCHANGED <<subject, result, endpoint, characterLimit, request, pc, response, calls, handlerResponse,
                 validations, bodyReads, signal, bridge>>
  /\ UNCHANGED <<bodyOpen, sent, inQ, flushed, now>>

\* a flush() that clears the buffer without enqueueing what it holds
FlushDiscarding ==
  /\ bridge = "streaming"
  /\ ~bodyOpen
  /\ inQ = <<>>
  /\ ~flushed
  /\ hist' = [hist EXCEPT !.timers = IF timeout # Null THEN @ - 1 ELSE @,
                          !.batch = <<>>,
                          !.emittedAtEnd = Some(Len(hist.emitted))]
  /\ buffer' = <<>>
  /\ timeout' = Null
  /\ flushed' = TRUE
  /\ UNCHANGED <<subject, result, endpoint, characterLimit, request, pc, response, calls, handlerResponse,
                 validations, bodyReads, message, signal, bridge>>
  /\ UNCHANGED <<bodyOpen, sent, inQ, outQ, editing, now>>

\* RateLimitStream.flush: the body has ended and every chunk is transformed;
\* a pending timer is cleared and what the buffer holds is enqueued.
Flush ==
  /\ bridge = "streaming"
  /\ ~bodyOpen
  /\ inQ = <<>>
  /\ ~flushed
  /\ LET cleared == [hist EXCEPT !.timers = IF timeout # Null THEN @ - 1 ELSE @]
         ended   == IF buffer = <<>> THEN cleared ELSE Flushed(cleared, "end")
         next    == Pump(IF buffer = <<>> THEN outQ ELSE Append(outQ, buffer),
                         editing, message,
                         [ended EXCEPT !.emittedAtEnd = Some(Len(ended.emitted))])
     IN  /\ outQ' = next.outQ
         /\ editing' = next.editing
         /\ message' = next.message
         /\ hist' = next.hist
  /\ buffer' = <<>>
  /\ timeout' = Null
  /\ flushed' = TRUE
  /\ UNCHANGED <<subject, result, endpoint, characterLimit, request, pc, response, calls, handlerResponse,
                 validations, bodyReads, signal, bridge>>
  /\ UNCHANGED <<bodyOpen, sent, inQ, now>>

\* a blob that is taken before the body has ended
BlobReadyEarly ==
  /\ bridge = "blob"
  /\ ~flushed
  /\ LET attached == [message EXCEPT !.attachments =
                        Append(@, [id |-> "0", ephemeral |-> TRUE])]
     IN  /\ message' = attached
         /\ editing' = Some(EditCall(request.interaction.token, attached, TRUE))
  /\ hist' = [hist EXCEPT !.edits = @ + 1]
  /\ inQ' = <<>>
  /\ flushed' = TRUE
  /\ UNCHANGED <<subject, result, endpoint, characterLimit, request, pc, response, calls,
                 handlerResponse, validations, bodyReads, signal, bridge>>
  /\ UNCHANGED <<bodyOpen, sent, buffer, timeout, outQ, now>>

\* response.blob() resolves when the body has ended: the attachment is added
\* to the message and the form is sent as the one edit call.
BlobReady ==
  /\ bridge = "blob"
  /\ ~bodyOpen
  /\ ~flushed
  /\ LET attached == [message EXCEPT !.attachments =
                        Append(@, [id |-> "0", ephemeral |-> TRUE])]
     IN  /\ message' = attached
         /\ editing' = Some(EditCall(request.interaction.token, attached, TRUE))
  /\ hist' = [hist EXCEPT !.edits = @ + 1]
  /\ inQ' = <<>>
  /\ flushed' = TRUE
  /\ UNCHANGED <<subject, result, endpoint, characterLimit, request, pc, response, calls, handlerResponse,
                 validations, bodyReads, signal, bridge>>
  /\ UNCHANGED <<bodyOpen, sent, buffer, timeout, outQ, now>>

\* The platform answers the edit call; 404 triggers the cancellation signal.
\* The next flush, if one waits, is then taken by the edit transform.
EditResponse ==
  /\ editing # Null
  /\ \E status \in EditStatuses :
       LET aborts == AbortsOn(status) /\ signal # "aborted"
           h1     == [hist EXCEPT !.statuses = @ \cup {status}, !.answers = @ + 1]
           h2     == IF aborts
                     THEN [h1 EXCEPT !.abortCause = Some(status),
                                     !.editsAtAbort = hist.edits,
                                     !.bytesInPipe = ByteCount(inQ) + Len(buffer)
                                                       + ByteCount(outQ)]
                     ELSE h1
           next   == Pump(outQ, Null, message, h2)
       IN  /\ signal' = IF AbortsOn(status) THEN "aborted" ELSE signal
           /\ outQ' = next.outQ
           /\ editing' = next.editing
           /\ message' = next.message
           /\ hist' = next.hist
  /\ UNCHANGED <<subject, result, endpoint, characterLimit, request, pc, response, calls, handlerResponse,
                 validations, bodyReads, bridge>>
  /\ UNCHANGED <<bodyOpen, sent, inQ, buffer, timeout, flushed, now>>

\* Time passes, up to the moment a pending timer fires.
Tick ==
  /\ bridge = "streaming"
  /\ now < MaxTime
  /\ timeout # Some(now)
  /\ ~(flushed /\ outQ = <<>> /\ editing = Null)
  /\ now' = now + 1
  /\ UNCHANGED <<subject, result, endpoint, characterLimit, request, pc, response, calls, handlerResponse,
                 validations, bodyReads, message, signal, bridge, hist>>
  /\ UNCHANGED <<bodyOpen, sent, inQ, buffer, timeout, flushed, outQ, editing>>

Next ==
  \/ RoutePlain
  \/ Validate
  \/ Ping
  \/ BadRequest
  \/ CommandInvoke
  \/ HandlerReturns
  \/ HandlerEnqueue
  \/ HandlerClose
  \/ Transform
  \/ TimerFire
  \/ Flush
  \/ BlobReady
  \/ EditResponse
  \/ Tick

Spec == Init /\ [][Next]_vars

(***************************************************************************)
(* Properties of handleInteraction and the bridge, checked under Spec.     *)
(***************************************************************************)
\* the routing loop of handleInteraction has run and matched no command
NoRoute == hist.matched = Some(0)

\* the routing loop has run and matched a command
Routed == hist.matched # Null /\ hist.matched # Some(0)

AtEndpoint == request.method = "POST" /\ UrlPathname(request.target) = endpoint

\* a signature of the right form that the library answers false for
WrongSignature ==
  /\ ~HexThrows(request.signature)
  /\ VerifyOutcomes(hexToUint8Array(request.signature)) = {"false"}

Unauthorized ==
  /\ pc = "returned"
  /\ response = Some(InvalidRequest)
  /\ calls = <<>>
  /\ hist.edits = 0
  /\ editing = Null

NoEditIssued == hist.edits = 0 /\ editing = Null

\* C1: a request that matches no route and whose method is not POST, whose
\* path is not the endpoint or whose signature does not verify (validate
\* answers an error) is answered 401 with a JSON error; no handler is
\* invoked and no edit call is issued.
C1_UnauthorizedIs401 ==
  /\ hist.outcome = "error" => Unauthorized
  /\ (NoRoute /\ (request.method # "POST" \/ UrlPathname(request.target) # endpoint
                    \/ WrongSignature))
       => Unauthorized

C1_Witness ==
  /\ NoRoute /\ AtEndpoint /\ request.signature = Some("0a0b")
  /\ Unauthorized

\* C2 (as claimed): a POST to the endpoint whose signature header is absent,
\* empty or malformed ends in the 401 JSON error, never in an exception.
MalformedSignature == request.signature \in {Null, Some(""), Some("zz"), Some("0a")}

C2_MalformedSignatureIs401 ==
  (NoRoute /\ MalformedSignature /\ AtEndpoint) => Unauthorized

\* C3: a request whose URL matches the pattern of a registered command is
\* given to a handler exactly once, validate is not called, the handler's
\* response is the response, and no edit call is issued; the endpoint path
\* is no exception.
C3_RouteBypassesValidation ==
  Routed
    => /\ pc = "returned"
       /\ Len(calls) = 1
       /\ validations = 0
       /\ handlerResponse # Null
       /\ response = handlerResponse
       /\ NoEditIssued
       /\ bridge = "none"

C3_Witness ==
  /\ endpoint = "/ping" /\ request.target = "/ping" /\ request.method = "POST"
  /\ request.signature = Null
  /\ Routed
  /\ pc = "returned" /\ Len(calls) = 1 /\ response = handlerResponse

\* C4: the ACK (type 5, placeholder content) is returned when the handler's
\* response arrives: before any edit call is issued and whether or not the
\* body stream has ended; the order is handler resolved, ACK, edits.
Placeholder == [NewMessage EXCEPT !.content = <<CR>>]

AckReturned ==
  /\ pc = "returned"
  /\ response # Null
  /\ response[1] = AckResponse([Placeholder EXCEPT !.components = message.components])

C4_AckBeforeEdits ==
  /\ (handlerResponse # Null /\ hist.outcome = "body") => (AckReturned /\ calls # <<>>)
  /\ (hist.edits > 0 \/ editing # Null \/ bridge # "none")
       => (AckReturned /\ handlerResponse # Null)

C4_Witness ==
  /\ AckReturned /\ bodyOpen /\ sent = MaxChunks /\ hist.edits > 0

\* C5 (as claimed): a validated command whose name is not in the registry
\* is answered 400 {error: "bad request"}, without an exception.
C5_UnknownCommandIs400 ==
  (/\ hist.outcome = "body"
   /\ request.interaction.type = APPLICATION_COMMAND
   /\ request.interaction.data.name \notin DOMAIN handlers
   /\ pc # "validated")
    => /\ pc = "returned"
       /\ response = Some(BadRequestResponse)
       /\ calls = <<>>
       /\ NoEditIssued

\* C7 (as claimed): once an edit call was answered 404, no further edit
\* call is issued, whatever the handler's stream delivers.
C7_NoEditAfter404 ==
  signal = "aborted" => hist.edits = hist.editsAtAbort

\* C7 (amended): an edit call answered 404 triggers the cancellation signal,
\* which stays triggered; the bridge does not stop by itself: every edit
\* call issued afterwards carries bytes that were still in the pipeline or
\* that the handler enqueued after the signal, so none is issued when there
\* are no such bytes.
C7_AbortOn404 ==
  /\ 404 \in hist.statuses => signal = "aborted"
  /\ signal = "aborted"
       => hist.edits - hist.editsAtAbort <= hist.bytesInPipe + hist.bytesAfter

C7_Witness ==
  /\ signal = "aborted"
  /\ hist.bytesAfter > 0
  /\ hist.edits > hist.editsAtAbort

\* C8: the signal is triggered if and only if an edit call was answered 404;
\* another failure status triggers nothing and is not retried: every
\* non-empty flush has exactly one edit call of its own, before and after a
\* failure.
RECURSIVE NonEmptyCount(_)
NonEmptyCount(chunks) ==
  IF chunks = <<>> THEN 0
  ELSE (IF Head(chunks) = <<>> THEN 0 ELSE 1) + NonEmptyCount(Tail(chunks))

C8_AbortOnlyOn404 ==
  /\ signal = "aborted" <=> 404 \in hist.statuses
  /\ hist.abortCause # Null => hist.abortCause = Some(404)
  /\ signal = "aborted" => hist.abortCause # Null
  /\ bridge = "streaming" => hist.edits + NonEmptyCount(outQ) = hist.flushes

C8_Witness ==
  /\ bridge = "streaming"
  /\ hist.statuses = {500}
  /\ signal = "created"
  /\ hist.edits = 2
  /\ editing # Null

\* C9 (as claimed): the content of the ACK and of every edit call is at most
\* characterLimit long, for every configured characterLimit.
C9_ContentWithinLimit ==
  /\ editing # Null => Len(editing[1].body.content) <= characterLimit
  /\ (bridge # "none" /\ response # Null)
       => Len(response[1].json.data.content) <= characterLimit

\* C10: the chunks transformed while a timer is pending are flushed as one
\* chunk, in arrival order, rateLimit after the first of them (sooner only
\* at the end of the stream); a later chunk does not move the timer.
RECURSIVE BatchBytes(_)
BatchBytes(batch) ==
  IF batch = <<>> THEN <<>> ELSE Head(batch).bytes \o BatchBytes(Tail(batch))

C10_MergedFlush ==
  /\ timeout # Null
       => /\ hist.batch # <<>>
          /\ timeout = Some(hist.batchStart + rateLimit)
          /\ buffer = BatchBytes(hist.batch)
  /\ hist.lastFlush # Null
       => LET f == hist.lastFlush[1]
          IN  /\ f.bytes = BatchBytes(f.batch)
              /\ f.start = f.batch[1].at
              /\ f.cause = "timer" => f.at = f.start + rateLimit
              /\ f.cause = "end" => f.at <= f.start + rateLimit

\* chunks at ticks 0 and 1 (0 ms and 500 ms), one flush at tick 2 (1000 ms)
C10_Witness ==
  /\ hist.lastFlush # Null
  /\ hist.lastFlush[1].cause = "timer"
  /\ hist.lastFlush[1].at = rateLimit
  /\ Len(hist.lastFlush[1].batch) = 2
  /\ hist.lastFlush[1].batch[1].at = 0
  /\ hist.lastFlush[1].batch[2].at = 1
  /\ hist.lastFlush[1].bytes = <<97, 98, 99, 100>>
  /\ hist.flushes = 1

(***************************************************************************)
(* The option loops of handleInteraction on their own: a route, the        *)
(* options of an interaction for its command, and what they resolve to.    *)
(***************************************************************************)
\* how many options an interaction carries at most
MaxOptions == 3

\* routes with required and optional slots; in "/x/:ab/:a" the name of one
\* placeholder is the beginning of another's
ResolveRoutes == {"/hello/:name?age=", "/x/:ab/:a", "/count?from=1&step=1", "/pair/:a/:b?q="}

OptionValues == {"Ann", "9"}

RECURSIVE NamesOf(_)
NamesOf(options) ==
  IF options = <<>> THEN <<>> ELSE <<Head(options).name>> \o NamesOf(Tail(options))

SeqRange(seq) == {seq[i] : i \in 1..Len(seq)}

\* the names of the slots of a route, and names no route of the model has:
\* "zz", and "n", the beginning of the placeholder "name"
SlotNames(route) == SeqRange(NamesOf(commandFromUri(route).options)) \cup {"zz", "n"}

\* the option lists of an interaction: distinct names, any order
OptionLists(route) ==
  UNION { { o \in [1..n -> [name : SlotNames(route), value : OptionValues]] :
              \A i, j \in 1..n : o[i].name = o[j].name => i = j } :
          n \in 0..MaxOptions }

\* handleInteraction is not running
Idle ==
  /\ endpoint = "/"
  /\ characterLimit = 2
  /\ request = [method |-> "GET", target |-> "/nope", signature |-> Null,
                interaction |-> PingInteraction]
  /\ pc = "idle"
  /\ Fresh

InitResolve ==
  /\ Idle
  /\ \E route \in ResolveRoutes :
       \E options \in OptionLists(route) :
         subject = Some([route |-> route, options |-> options])
  /\ result = Null

\* the option loops run on the subject
Resolve ==
  /\ subject # Null
  /\ result = Null
  /\ result' = Some(ResolveOptions(subject[1].route, subject[1].options))
  /\ UNCHANGED <<subject, endpoint, characterLimit, request, pc, response, calls,
                 handlerResponse, validations, bodyReads, message, signal, bridge, hist>>
  /\ UNCHANGED streamVars

NextResolve == Resolve

SpecResolve == InitResolve /\ [][NextResolve]_vars

(***************************************************************************)
(* Properties of the option loops, checked under SpecResolve.              *)
(***************************************************************************)
\* the options of a command that are required (path slots) or not (query)
RECURSIVE OptionsWhere(_, _)
OptionsWhere(options, required) ==
  IF options = <<>> THEN <<>>
  ELSE (IF Head(options).required = required THEN <<Head(options)>> ELSE <<>>)
         \o OptionsWhere(Tail(options), required)

\* the interaction supplies a value for exactly the slots of the route
OnePerSlot ==
  /\ subject # Null
  /\ SeqRange(NamesOf(subject[1].options))
       = SeqRange(NamesOf(commandFromUri(subject[1].route).options))

\* no placeholder's name is the beginning of another placeholder's name
PrefixFree(names) ==
  \A i, j \in 1..Len(names) : i # j => ~StartsWith(names[j], names[i])

ValueOf(options, name) ==
  options[CHOOSE i \in 1..Len(options) : options[i].name = name].value

\* "/" command "/" value "/" value ...: each placeholder replaced by the
\* value of the option of its name
RECURSIVE SubstitutedPath(_, _, _)
SubstitutedPath(prefix, names, options) ==
  IF names = <<>> THEN prefix
  ELSE SubstitutedPath(prefix \o "/" \o ValueOf(options, Head(names).name),
                       Tail(names), options)

C16_UnmatchedOptionLeavesUrl ==
  result # Null
    => LET route   == subject[1].route
           options == subject[1].options
           slots   == SeqRange(NamesOf(commandFromUri(route).options))
       IN  \A i \in 1..Len(options) :
             options[i].name \notin slots
               => LET without == ResolveOptions(route, RemoveAt(options, i))
                  IN  /\ options[i].name \in DOMAIN result[1].params
                      /\ result[1].params[options[i].name] = options[i].value
                      /\ result[1].pathname = without.pathname
                      /\ result[1].searchParams = without.searchParams

\* the options whose name is not a search parameter, in their order
RECURSIVE Undeclared(_, _)
Undeclared(options, searchParams) ==
  IF options = <<>> THEN <<>>
  ELSE (IF SearchHas(searchParams, Head(options).name) THEN <<>> ELSE <<Head(options)>>)
         \o Undeclared(Tail(options), searchParams)

\* C24: after the pass over the options from the last to the first, no
\* remaining option has the name of a query slot of the route, the value of
\* every removed option is in its query slot, and the remaining options are
\* the other options in their order.
C24_OptionalPassSplices ==
  result # Null
    => LET declared == SearchParams(UrlSearch(subject[1].route))
           options  == subject[1].options
       IN  /\ \A i \in 1..Len(result[1].remaining) :
                ~SearchHas(declared, result[1].remaining[i].name)
           /\ \A i \in 1..Len(options) :
                SearchHas(declared, options[i].name)
                  => SearchGet(result[1].searchParams, options[i].name) = options[i].value
           /\ result[1].remaining = Undeclared(options, declared)

\* two optional options next to each other, after an option that stays
C24_Witness ==
  /\ subject = Some([route   |-> "/count?from=1&step=1",
                     options |-> << [name |-> "n", value |-> "Ann"],
                                    [name |-> "from", value |-> "9"],
                                    [name |-> "step", value |-> "Ann"] >>])
  /\ result # Null
  /\ result[1].remaining = << [name |-> "n", value |-> "Ann"] >>
  /\ SearchGet(result[1].searchParams, "from") = "9"
  /\ SearchGet(result[1].searchParams, "step") = "Ann"

(***************************************************************************)
(* Further properties of the bridge, checked under Spec.                   *)
(***************************************************************************)
\* C11 (as claimed): two consecutive flushes of the rate-limit buffer are at
\* least rateLimit apart, the flush at the end of the stream included.
C11_FlushesSpreadOut ==
  [][(hist.lastFlush # Null /\ hist'.flushes > hist.flushes)
       => hist'.lastFlush[1].at - hist.lastFlush[1].at >= rateLimit]_vars

\* C13: a response with Content-Disposition: attachment gets no incremental
\* edit: the ACK is returned while the body is still open, and one edit
\* call, a multipart form whose message has the placeholder content and
\* exactly one attachment, marked ephemeral, is issued when the whole body
\* has been read; a 404 answered to it triggers the signal.
C13_AttachmentSingleEdit ==
  bridge = "blob"
    => /\ AckReturned
       /\ hist.edits = (IF flushed THEN 1 ELSE 0)
       /\ flushed => ~bodyOpen
       /\ ~flushed => (editing = Null /\ message.content = <<CR>>
                                      /\ message.attachments = <<>>)
       /\ flushed
            => /\ Len(message.attachments) = 1
               /\ message.attachments[1].ephemeral
               /\ message.content = <<CR>>
       /\ editing # Null => (editing[1].form /\ editing[1].body = message)
       /\ buffer = <<>> /\ outQ = <<>> /\ timeout = Null /\ hist.flushes = 0
       /\ 404 \in hist.statuses <=> signal = "aborted"

C13_Witness ==
  /\ bridge = "blob"
  /\ sent = MaxChunks
  /\ hist.edits = 1
  /\ editing = Null
  /\ hist.statuses = {404}
  /\ signal = "aborted"

\* C14 (as claimed): every validated command interaction of a registered
\* command, from a guild member or from a user in a direct message, has its
\* handler invoked with the requesting user's id in the Authorization
\* header; none fails before the handler is invoked.
C14_HandlerGetsUser ==
  (/\ hist.outcome = "body"
   /\ request.interaction.type = APPLICATION_COMMAND
   /\ request.interaction.data.name \in DOMAIN handlers
   /\ pc # "validated")
    => /\ pc # "threw"
       /\ Len(calls) = 1
       /\ calls[1].user # Null

\* the call of the handler a plain request was routed to, the command that
\* matched and the segments of the request's path
RoutedCommand == commands[hist.matched[1]]

RequiredBound ==
  LET required == OptionsWhere(RoutedCommand.options, TRUE)
      segments == Split(UrlPathname(request.target), "/")
  IN  /\ Len(calls) = 1
      /\ \A i \in 1..Len(required) :
           /\ required[i].name \in DOMAIN calls[1].params
           /\ calls[1].params[required[i].name] = segments[i + 2]

\* C15 (as claimed): the params of a routed plain request bind every
\* required (path) slot and every optional (query) slot present in the URL.
C15_ParamsBindQuery ==
  Routed
    => /\ RequiredBound
       /\ LET sp == SearchParams(UrlSearch(request.target))
          IN  \A name \in SeqRange(NamesOf(OptionsWhere(RoutedCommand.options, FALSE))) :
                SearchHas(sp, name)
                  => /\ name \in DOMAIN calls[1].params
                     /\ calls[1].params[name] = SearchGet(sp, name)

\* C15 (amended): the params of a routed plain request bind exactly the
\* required (path) slots, each to its path segment; an optional (query)
\* slot is not in params: the handler is given the request itself, whose
\* URL carries the query.
C15_ParamsBindPathSlots ==
  Routed
    => /\ RequiredBound
       /\ DOMAIN calls[1].params
            = SeqRange(NamesOf(OptionsWhere(RoutedCommand.options, TRUE)))
       /\ calls[1].url = request.target

C15_Witness ==
  /\ Routed
  /\ request.target = "/hello/Ann?age=9"
  /\ Len(calls) = 1
  /\ calls[1].params = ("name" :> "Ann")
  /\ calls[1].url = "/hello/Ann?age=9"

\* nothing but the response has come of the request
NothingStarted ==
  /\ pc = "returned"
  /\ calls = <<>>
  /\ handlerResponse = Null
  /\ signal = "none"
  /\ bridge = "none"
  /\ NoEditIssued

\* C21: a validated ping is answered 200 with a body of type PONG, a
\* validated interaction that is neither a ping nor a command is answered
\* 400 {error: "bad request"}; in both cases no handler is invoked, no
\* signal is created and no edit call is issued.
C21_PingAndBadRequest ==
  (hist.outcome = "body" /\ pc # "validated")
    => /\ request.interaction.type = PING
            => /\ NothingStarted
               /\ response = Some([status |-> 200, json |-> [type |-> PONG]])
       /\ request.interaction.type \notin {PING, APPLICATION_COMMAND}
            => /\ NothingStarted
               /\ response = Some([status |-> 400, json |-> [error |-> "bad request"]])

C21_Witness ==
  /\ hist.outcome = "body"
  /\ request.interaction.type = PING
  /\ NothingStarted
  /\ response = Some(PongResponse)

\* the flush the edit transform has to take next: the oldest one waiting,
\* or the one being emitted when none waits
OldestFlush == IF outQ # <<>> THEN Head(outQ) ELSE buffer

\* C22: the edits of an interaction are sequential: at most one edit call
\* awaits its answer, an edit call is issued only when every earlier one
\* has been answered, and each edit call is made from the oldest flush not
\* yet edited, also when flushes are emitted while an edit call awaits its
\* answer.
C22_SequentialEdits ==
  [][/\ hist'.edits - hist'.answers \in {0, 1}
     /\ (editing' # Null) <=> (hist'.edits - hist'.answers = 1)
     /\ hist'.edits > hist.edits
          => /\ hist'.edits = hist.edits + 1
             /\ hist'.answers = hist.edits
             /\ bridge = "streaming"
                  => editing'[1].body.content
                       = TrimContent(message.content \o Decode(OldestFlush), characterLimit)]_vars

\* a third flush waits while the second edit call awaits its answer
C22_Witness ==
  /\ bridge = "streaming"
  /\ hist.answers = 1
  /\ hist.edits = 2
  /\ editing # Null
  /\ Len(outQ) = 1
  /\ hist.flushes = 3

\* C23: in the rate-limit buffer the bytes received are the bytes of the
\* chunks enqueued so far followed by the bytes of the buffer, in arrival
\* order; at most one timer is pending; once flush() has run the buffer is
\* empty, no timer is pending, every byte received has been enqueued and no
\* further chunk is enqueued.
C23_BytesConserved ==
  /\ hist.received = Flatten(hist.emitted) \o buffer
  /\ hist.timers \in {0, 1}
  /\ (timeout # Null) <=> (hist.timers = 1)
  /\ (bridge = "streaming" /\ flushed)
       => /\ buffer = <<>>
          /\ timeout = Null
          /\ hist.received = Flatten(hist.emitted)
          /\ hist.emittedAtEnd = Some(Len(hist.emitted))

\* "bcd" and "a" arrive before the timer fires and are enqueued as one chunk,
\* a second "a" arrives after it and is enqueued when the stream ends
C23_Witness ==
  /\ flushed
  /\ hist.emitted = << <<98, 99, 100, 97>>, <<97>> >>
  /\ hist.received = <<98, 99, 100, 97, 97>>
  /\ hist.lastFlush # Null
  /\ hist.lastFlush[1].cause = "end"

\* the query holds keys of the given names only, each at most once
QueryWithin(names, search) ==
  LET sp == SearchParams(search)
  IN  /\ \A k \in 1..Len(sp) : sp[k][1] \in SeqRange(names)
      /\ \A k, l \in 1..Len(sp) : sp[k][1] = sp[l][1] => k = l

\* C25 (as claimed): a plain request whose path matches the required
\* segments of a route is routed to it for every subset of the route's
\* optional query keys in the request, the empty subset included, whatever
\* the number of optional slots.
C25_AnySubsetOfQueryMatches ==
  hist.matched # Null
    => \A i \in 1..Len(commands) :
         ( /\ PathnameMatches(commands[i].name, commands[i].options,
                              UrlPathname(request.target))
           /\ QueryWithin(OptionalNames(commands[i].options), UrlSearch(request.target)) )
           => hist.matched = Some(i)

\* C26 (as claimed): validate reads the body of the request exactly once in
\* every outcome, also when the method is not POST or the path is not the
\* endpoint.
C26_BodyReadOnceAlways ==
  hist.outcome # "none" => bodyReads = 1

\* C26 (amended): validate reads the body at most once: exactly once when
\* the method is POST and the path is the endpoint, whatever comes of the
\* signature, and not at all when the method is not POST or the path is not
\* the endpoint.
C26_BodyReadOnceAtEndpoint ==
  /\ bodyReads <= 1
  /\ hist.outcome = "none" => bodyReads = 0
  /\ hist.outcome # "none" => (bodyReads = 1 <=> AtEndpoint)
  /\ hist.outcome \in {"body", "throw"} => bodyReads = 1

\* a signature that does not verify: the body was read, the answer is 401
C26_Witness ==
  /\ hist.outcome = "error"
  /\ AtEndpoint
  /\ WrongSignature
  /\ bodyReads = 1
  /\ Unauthorized

(***************************************************************************)
(* wrapText on its own: a text, and what wrapText makes of it.             *)
(***************************************************************************)
\* how long the texts tried are at most
MaxTextLen == 4

\* the characters of the texts tried: the four control codes, "a" and "b"
TextChars == {BS, CR, LF, FF, 97, 98}

Texts == UNION {[1..n -> TextChars] : n \in 0..MaxTextLen}

\* a b BS c CR LF space d CR e FF space f
ExampleText == <<97, 98, BS, 99, CR, LF, 32, 100, CR, 101, FF, 32, 102>>

InitWrap ==
  /\ Idle
  /\ \E text \in Texts \cup {ExampleText} : subject = Some([text |-> text])
  /\ result = Null

\* wrapText runs on the subject
Wrap ==
  /\ subject # Null
  /\ result = Null
  /\ result' = Some(wrapText(subject[1].text))
  /\ UNCHANGED <<subject, endpoint, characterLimit, request, pc, response, calls,
                 handlerResponse, validations, bodyReads, message, signal, bridge, hist>>
  /\ UNCHANGED streamVars

NextWrap == Wrap

SpecWrap == InitWrap /\ [][NextWrap]_vars

(***************************************************************************)
(* Properties of wrapText, checked under SpecWrap.                         *)
(***************************************************************************)
\* One step of the fold: the state is the committed result, the current
\* line, and whether a CR is waiting for the character after it.
FoldChar(state, c) ==
  LET line == IF state.cr /\ c # LF THEN <<>> ELSE state.line  \* a bare CR
  IN  IF state.cr /\ c = LF
        THEN [result |-> state.result \o state.line \o <<CR, LF>>, line |-> <<>>,
              cr |-> FALSE]
      ELSE IF c = CR THEN [result |-> state.result, line |-> line, cr |-> TRUE]
      ELSE IF c = BS
        THEN [result |-> state.result,
              line   |-> IF line = <<>> THEN <<>> ELSE SubSeq(line, 1, Len(line) - 1),
              cr     |-> FALSE]
      ELSE IF c = FF THEN [result |-> <<>>, line |-> <<>>, cr |-> FALSE]
      ELSE [result |-> state.result, line |-> Append(line, c), cr |-> FALSE]

RECURSIVE FoldLeft(_, _)
FoldLeft(state, text) ==
  IF text = <<>> THEN state ELSE FoldLeft(FoldChar(state, Head(text)), Tail(text))

\* the text the fold ends with; a CR at the very end is a bare CR
FoldText(text) ==
  LET end == FoldLeft([result |-> <<>>, line |-> <<>>, cr |-> FALSE], text)
  IN  end.result \o (IF end.cr THEN <<>> ELSE end.line)

\* C12: wrapText is the left-to-right fold of the rules: backspace removes
\* the last character of the current line, CR LF commits the current line
\* with the CR LF, a bare CR clears the current line, form feed clears
\* everything, any other character is appended to the current line; the
\* text a b BS c CR LF space d CR e FF space f becomes space f.
C12_WrapIsFold ==
  result # Null
    => /\ result[1] = FoldText(subject[1].text)
       /\ subject[1].text = ExampleText => result[1] = <<32, 102>>

C12_Witness ==
  /\ subject = Some([text |-> ExampleText])
  /\ result = Some(<<32, 102>>)

\* C31: the text wrapText returns holds no backspace, no form feed and no
\* CR that is not immediately followed by LF, and wrapText leaves it as it
\* is: wrapText(wrapText(x)) = wrapText(x).
C31_WrapIdempotent ==
  result # Null
    => LET out == result[1]
       IN  /\ \A i \in 1..Len(out) :
                /\ out[i] # BS
                /\ out[i] # FF
                /\ out[i] = CR => (i < Len(out) /\ out[i + 1] = LF)
           /\ wrapText(out) = out

\* a CR LF, then a letter that a backspace removes: the result is the CR LF
C31_Witness ==
  /\ subject = Some([text |-> <<CR, LF, 98, BS>>])
  /\ result = Some(<<CR, LF>>)

\* C29 (as claimed): the content does not depend on how the text is cut
\* into flushes: for every cut of the text into a and b,
\* wrapText(wrapText(a) + b) = wrapText(a + b), also when the cut falls
\* between a CR and a LF, and the placeholder CR before the first chunk
\* does not change the result.
C29_CutIndependent ==
  result # Null
    => LET text == subject[1].text
       IN  /\ \A k \in 0..Len(text) :
                wrapText(wrapText(SubSeq(text, 1, k)) \o SubSeq(text, k + 1, Len(text)))
                  = result[1]
           /\ wrapText(<<CR>> \o text) = result[1]

(***************************************************************************)
(* Startup: router() and registerCommands.  The subject is the options     *)
(* given to router(); the result is how far startup has come.              *)
(***************************************************************************)
\* how many guild ids options.guildId lists at most
MaxGuilds == 2

\* the items of the comma-separated list; the empty item is what "g1," or
\* "," lists
GuildIdItems == {"g1", "g2", ""}

\* the value of guildId after its default: Null when neither the option nor
\* the environment gives one
GuildIdValues ==
  {Null} \cup {Some(Join(ids, ",")) :
                 ids \in UNION {[1..n -> GuildIdItems] : n \in 1..MaxGuilds}}

\* the endpoint of the PUT for one item of the list
RegisterEndpoint(guildId) ==
  IF guildId # "" THEN "applications/app/guilds/" \o guildId \o "/commands"
  ELSE "applications/app/commands"

\* the PUT of registerCommands for one item of the list
RegisterCall(guildId, authToken) ==
  [method |-> "PUT", endpoint |-> RegisterEndpoint(guildId),
   authorization |-> "Bot " \o authToken, body |-> commands]

\* the items registerCommands loops over; none when it returns early
RegisterScopes(options) ==
  IF options.guildId = Null \/ options.guildId = Some("") \/ options.authToken = ""
  THEN <<>>
  ELSE Split(options.guildId[1], ",")

\* router(): registerCommands is not called when serveOnly is set
StartupScopes(options) == IF options.serveOnly THEN <<>> ELSE RegisterScopes(options)

\* how a PUT ends: an OK response, a response that is not OK, or a fetch
\* that rejects (the network call failed)
PutOutcomes == {"ok", "notOk", "rejected"}

InitRegister ==
  /\ Idle
  /\ \E serveOnly \in BOOLEAN, authToken \in {"", "tok"}, guildId \in GuildIdValues :
       subject = Some([serveOnly |-> serveOnly, authToken |-> authToken,
                       guildId |-> guildId])
  /\ result = Null

\* router(routes, options): registerCommands is called and not awaited
\* unless serveOnly; the request handler is returned.
Startup ==
  /\ subject # Null
  /\ result = Null
  /\ LET scopes == StartupScopes(subject[1])
     IN  result' = Some([pc       |-> IF scopes = <<>> THEN "done" ELSE "loop",
                         todo     |-> scopes,
                         puts     |-> <<>>,
                         outcomes |-> <<>>,
                         reports  |-> <<>>,
                         serving  |-> TRUE])
  /\ UNCHANGED <<subject, endpoint, characterLimit, request, pc, response, calls,
                 handlerResponse, validations, bodyReads, message, signal, bridge, hist>>
  /\ UNCHANGED streamVars

\* One turn of the loop: the PUT for the next item is sent and awaited.
IssuePut ==
  /\ result # Null
  /\ result[1].pc = "loop"
  /\ result' = Some([result[1] EXCEPT
                       !.pc   = "awaiting",
                       !.puts = Append(@, RegisterCall(Head(result[1].todo),
                                                       subject[1].authToken)),
                       !.todo = Tail(@)])
  /\ UNCHANGED <<subject, endpoint, characterLimit, request, pc, response, calls,
                 handlerResponse, validations, bodyReads, message, signal, bridge, hist>>
  /\ UNCHANGED streamVars

\* what becomes of the loop after a PUT has ended
AfterPut(outcome, todo) ==
  IF outcome = "rejected" THEN "rejected"
  ELSE IF todo = <<>> THEN "done" ELSE "loop"

\* The PUT ends.  A response is logged, as an error when it is not OK, and
\* the loop goes on; a fetch that rejects rejects registerCommands, whose
\* promise nobody handles: the runtime may end the process for it.
PutEnds ==
  /\ result # Null
  /\ result[1].pc = "awaiting"
  /\ \E outcome \in PutOutcomes :
       \E serving \in (IF outcome = "rejected" THEN BOOLEAN ELSE {TRUE}) :
         result' = Some([result[1] EXCEPT
                           !.pc       = AfterPut(outcome, result[1].todo),
                           !.outcomes = Append(@, outcome),
                           !.reports  = IF outcome = "rejected" THEN @
                                        ELSE Append(@, outcome),
                           !.serving  = serving])
  /\ UNCHANGED <<subject, endpoint, characterLimit, request, pc, response, calls,
                 handlerResponse, validations, bodyReads, message, signal, bridge, hist>>
  /\ UNCHANGED streamVars

NextRegister ==
  \/ Startup
  \/ IssuePut
  \/ PutEnds

SpecRegister == InitRegister /\ [][NextRegister]_vars

(***************************************************************************)
(* Properties of startup, checked under SpecRegister.                      *)
(***************************************************************************)
RegistrationOver == result # Null /\ result[1].pc \in {"done", "rejected"}

\* C17 (as claimed): with an auth token and serveOnly false there is one PUT
\* per configured scope: one to the global scope when no guild id is
\* configured, otherwise one per guild id of the list; serveOnly true
\* issues none.
C17_OnePutPerScope ==
  (result # Null /\ result[1].pc = "done" /\ subject[1].authToken # "")
    => LET puts == result[1].puts
       IN  IF subject[1].serveOnly THEN puts = <<>>
           ELSE IF subject[1].guildId \in {Null, Some("")}
             THEN /\ Len(puts) = 1
                  /\ puts[1].endpoint = "applications/app/commands"
           ELSE Len(puts) = Len(Split(subject[1].guildId[1], ","))

\* C18 (as claimed): after a PUT that fails, by a response that is not OK
\* or by a network call that fails, the PUTs of the remaining scopes are
\* still issued, and the request handler is returned and keeps serving.
C18_FailureDoesNotBlock ==
  RegistrationOver
    => /\ Len(result[1].puts) = Len(StartupScopes(subject[1]))
       /\ result[1].serving

(***************************************************************************)
(* commandFromUri on its own: a route written from its declared slots, and *)
(* the command derived from it.                                            *)
(***************************************************************************)
\* how many required and how many optional slots a route declares at most
MaxSlots == 2

\* the sequences of up to MaxSlots distinct names
SlotLists(names) ==
  UNION { { l \in [1..n -> names] : \A i, j \in 1..n : l[i] = l[j] => i = j } :
          n \in 0..MaxSlots }

\* a route as its author declares it: the command name, the placeholders of
\* the path in order and the keys of the query in order
RouteDeclarations ==
  [name : {"cmd"}, required : SlotLists({"a", "b", "ab"}),
   optional : SlotLists({"p", "q", "a"})]

RECURSIVE PlaceholderPath(_)
PlaceholderPath(names) ==
  IF names = <<>> THEN "" ELSE "/:" \o Head(names) \o PlaceholderPath(Tail(names))

RECURSIVE EmptyQuery(_)
EmptyQuery(keys) ==
  IF keys = <<>> THEN ""
  ELSE Head(keys) \o "=" \o (IF Len(keys) = 1 THEN "" ELSE "&" \o EmptyQuery(Tail(keys)))

\* the route string of a declaration, like "/hello/:name?age="
RouteString(declaration) ==
  "/" \o declaration.name \o PlaceholderPath(declaration.required)
      \o (IF declaration.optional = <<>> THEN ""
          ELSE "?" \o EmptyQuery(declaration.optional))

InitCommand ==
  /\ Idle
  /\ \E declaration \in RouteDeclarations : subject = Some(declaration)
  /\ result = Null

\* commandFromUri runs on the route of the subject
Derive ==
  /\ subject # Null
  /\ result = Null
  /\ result' = Some(commandFromUri(RouteString(subject[1])))
  /\ UNCHANGED <<subject, endpoint, characterLimit, request, pc, response, calls,
                 handlerResponse, validations, bodyReads, message, signal, bridge, hist>>
  /\ UNCHANGED streamVars

NextCommand == Derive

SpecCommand == InitCommand /\ [][NextCommand]_vars

MaxRoutes == 2

\* Routes whose names pass NAME_REGEX as they are written ("hello", a name
\* of 32 characters, "x-1_y", "héllo") and routes whose names do not (the
\* empty name, a name of 33 characters, "a.b").
RegistryRoutes ==
  {"/hello", "/hello/:name?age=", "/x-1_y?q=", "/abcdefghijklmnopqrstuvwxyz012345", "/abcdefghijklmnopqrstuvwxyz012345z",
   "/héllo", "/", "/a.b/:x"}

\* the keys of the route map, in insertion order: distinct routes
RouteMaps ==
  UNION { { m \in [1..n -> RegistryRoutes] : \A i, j \in 1..n : m[i] = m[j] => i = j } :
          n \in 0..MaxRoutes }

InitRegistry ==
  /\ Idle
  /\ \E routes \in RouteMaps : subject = Some([routes |-> routes])
  /\ result = Null

\* the for loop of router() runs over the route map
BuildRegistry ==
  /\ subject # Null
  /\ result = Null
  /\ result' = Some([commands |-> RouterCommands(subject[1].routes),
                     handlers |-> RouterHandlers(subject[1].routes)])
  /\ UNCHANGED <<subject, endpoint, characterLimit, request, pc, response, calls,
                 handlerResponse, validations, bodyReads, message, signal, bridge, hist>>
  /\ UNCHANGED streamVars

NextRegistry == BuildRegistry

SpecRegistry == InitRegistry /\ [][NextRegistry]_vars

(***************************************************************************)
(* Properties of the registry, checked under SpecRegistry.                 *)
(***************************************************************************)
\* the command name of a route as it is written: its first path segment
WrittenName(route) == Split(RawPathname(route), "/")[2]

\* C20 (as claimed): a route whose name fails the identifier rule adds no
\* command and no handler and the other routes are still registered; a
\* route whose name satisfies the rule is always kept.
C20_ValidNamesKept ==
  result # Null
    => \A i \in 1..Len(subject[1].routes) :
         LET name == WrittenName(subject[1].routes[i])
             kept == /\ \E k \in 1..Len(result[1].commands) :
                          result[1].commands[k].name = name
                     /\ name \in DOMAIN result[1].handlers
             none == /\ \A k \in 1..Len(result[1].commands) :
                          result[1].commands[k].name # name
                     /\ name \notin DOMAIN result[1].handlers
         IN  IF NameRegexTest(name) THEN kept ELSE none

\* the routes router() keeps, in the order of the route map
RECURSIVE KeptRoutes(_)
KeptRoutes(routes) ==
  IF routes = <<>> THEN <<>>
  ELSE (IF commandFromUri(Head(routes)).dropped THEN <<>> ELSE <<Head(routes)>>)
         \o KeptRoutes(Tail(routes))

\* plain requests for the routes of the model
RegistryTargets == {"/hello", "/hello/Ann", "/hello/Ann?age=9", "/x-1_y?q=1"}

\* C30 (as claimed): the names of the registered commands are pairwise
\* distinct, and the handler found for a command, by an interaction naming
\* it or by a plain request matching its pattern, is the handler of the
\* route the command was derived from, also when two routes share their
\* first path segment.
C30_HandlerOfSameRoute ==
  result # Null
    => LET registered == result[1].commands
           kept       == KeptRoutes(subject[1].routes)
       IN  /\ \A i, j \in 1..Len(registered) :
                registered[i].name = registered[j].name => i = j
           /\ \A i \in 1..Len(registered) :
                result[1].handlers[registered[i].name] = kept[i]
           /\ \A target \in RegistryTargets :
                LET i == FirstMatch(registered, target)
                IN  i # 0 => result[1].handlers[registered[i].name] = kept[i]

(***************************************************************************)
(* A command interaction whose handler answers with links: the subject is  *)
(* the list of links of the handler's response.                            *)
(***************************************************************************)
LinkRequest ==
  [method |-> "POST", target |-> "/", signature |-> Some("c0de"),
   interaction |-> [type |-> APPLICATION_COMMAND,
                    data |-> [name |-> "hello",
                              options |-> <<Opt("age", "9"), Opt("name", "Ann")>>],
                    member |-> Some("u1"), token |-> "tok"]]

InitLink ==
  /\ endpoint = "/"
  /\ characterLimit = 2
  /\ request = LinkRequest
  /\ pc = "start"
  /\ Fresh
  /\ \E links \in LinkLists : subject = Some([links |-> links])
  /\ result = Null

NextLink ==
  \/ Validate
  \/ CommandInvoke
  \/ HandlerReturns
  \/ HandlerEnqueue
  \/ HandlerClose
  \/ Transform
  \/ TimerFire
  \/ Flush
  \/ BlobReady
  \/ EditResponse
  \/ Tick

SpecLink == InitLink /\ [][NextLink]_vars

(***************************************************************************)
(* Properties of the buttons, checked under SpecLink.                      *)
(***************************************************************************)
\* the button is the button of the link: a custom_id or a url, never both,
\* by the decoded target; the label of the title; disabled when the link is
ButtonOf(button, link) ==
  /\ button.type = 2
  /\ ("custom_id" \in DOMAIN button) # ("url" \in DOMAIN button)
  /\ IF StartsWith(link.decoded, "/")
     THEN /\ "custom_id" \in DOMAIN button
          /\ button.custom_id = Substring(link.decoded, 1)
          /\ button.style = 1
     ELSE /\ "url" \in DOMAIN button
          /\ button.url = link.decoded
          /\ button.style = 5
  /\ ("label" \in DOMAIN button) <=> (link.title # Null)
  /\ link.title # Null => button.label = link.title[1]
  /\ ("disabled" \in DOMAIN button) <=> link.disabled
  /\ link.disabled => button.disabled = TRUE

\* the components of a message are the one action row of the links, or
\* nothing when there are no links
RowOf(components, links) ==
  /\ Len(components) <= 1
  /\ (Len(components) = 1) <=> (links # <<>>)
  /\ Len(components) = 1
       => /\ components[1].type = 1
          /\ Len(components[1].components) = Len(links)
          /\ \A i \in 1..Len(links) : ButtonOf(components[1].components[i], links[i])

\* C27: the ACK and every edit of an interaction hold at most one action
\* row, present exactly when the handler's response has a Link header, with
\* one button per link value in their order; a button has a custom_id and
\* style 1 when its target starts with a slash and a url and style 5
\* otherwise, the label of the title parameter, and is disabled when the
\* disabled parameter is present.
C27_ButtonsOnEveryMessage ==
  bridge # "none"
    => /\ (handlerResponse[1].link # Null) <=> (handlerResponse[1].links # <<>>)
       /\ response # Null
            => RowOf(response[1].json.data.components, handlerResponse[1].links)
       /\ editing # Null
            => RowOf(editing[1].body.components, handlerResponse[1].links)

\* the second edit of a streamed response with three links
C27_Witness ==
  /\ bridge = "streaming"
  /\ handlerResponse[1].links = <<NextPageLink, GoLink, EscapedLink>>
  /\ hist.edits = 2
  /\ editing # Null
  /\ Len(editing[1].body.components) = 1
  /\ editing[1].body.components[1].components[1]
       = [type |-> 2, style |-> 1, custom_id |-> "next", label |-> "Next page",
          disabled |-> TRUE]
  /\ editing[1].body.components[1].components[2]
       = [type |-> 2, style |-> 5, url |-> "https://e.x/a", label |-> "Go"]
  /\ editing[1].body.components[1].components[3]
       = [type |-> 2, style |-> 1, custom_id |-> "a b"]
  /\ response[1].json.data.components = editing[1].body.components

(***************************************************************************)
(* Two command interactions handled at the same time.  Each call of        *)
(* handleInteraction has its own message, AbortController and pipeline     *)
(* (RateLimitStream with its buffer and timer, edit transform); the result *)
(* holds the two bridges, the subject the two interactions.  The timers    *)
(* fire at some moment after they were started.                            *)
(***************************************************************************)
\* how many chunks each of the two handlers enqueues at most
PairChunks == 2

\* the token of each interaction and the chunk its handler enqueues
PairInteractions ==
  << [token |-> "tokA", chunk |-> <<97>>],
     [token |-> "tokB", chunk |-> <<98, 99, 100>>] >>

PairStatuses == {200, 404}

\* the state of one call of handleInteraction before it has started
NewBridge(interaction) ==
  [stage    |-> "none",
   token    |-> interaction.token,
   message  |-> NewMessage,
   signal   |-> "none",
   bodyOpen |-> FALSE,
   sent     |-> 0,
   inQ      |-> <<>>,
   buffer   |-> <<>>,
   timeout  |-> Null,
   flushed  |-> FALSE,
   outQ     |-> <<>>,
   editing  |-> Null,
   statuses |-> {},      \* statuses answered to its edit calls
   emitted  |-> <<>>,    \* the chunks its rate-limit buffer enqueued
   edited   |-> <<>>,    \* the chunks its edit transform has taken
   edits    |-> 0]       \* edit calls issued

\* the edit transform of one bridge: the next flush, when no edit call
\* awaits its answer
RECURSIVE BridgePump(_)
BridgePump(b) ==
  IF b.editing # Null \/ b.outQ = <<>> THEN b
  ELSE LET chunk == Decode(Head(b.outQ))
       IN  IF chunk = <<>> THEN BridgePump([b EXCEPT !.outQ = Tail(@)])
           ELSE LET edited == EditTransform(b.message, chunk, characterLimit)
                IN  [b EXCEPT !.outQ = Tail(@),
                              !.edited = Append(@, Head(b.outQ)),
                              !.editing = Some(EditCall(b.token, edited, FALSE)),
                              !.message = edited,
                              !.edits = @ + 1]

\* an AbortController shared by the two calls
AbortedBoth(pair, i) ==
  [j \in DOMAIN pair |-> [pair[j] EXCEPT !.signal = "aborted"]]

\* abortController.abort() of call i
Aborted(pair, i) == [pair EXCEPT ![i].signal = "aborted"]

InitPair ==
  /\ Idle
  /\ subject = Some(PairInteractions)
  /\ result = Some([i \in 1..2 |-> NewBridge(PairInteractions[i])])

pairUnchanged ==
  /\ UNCHANGED <<subject, endpoint, characterLimit, request, pc, response, calls,
                 handlerResponse, validations, bodyReads, message, signal, bridge, hist>>
  /\ UNCHANGED streamVars

\* call i reaches its handler and sets up its pipeline
PairInvoke(i) ==
  /\ result[1][i].stage = "none"
  /\ result' = Some([result[1] EXCEPT
                       ![i].stage = "streaming",
                       ![i].message = [NewMessage EXCEPT !.content = <<CR>>],
                       ![i].signal = "created",
                       ![i].bodyOpen = TRUE])
  /\ pairUnchanged

\* the handler of call i enqueues its chunk
PairEnqueue(i) ==
  /\ result[1][i].stage = "streaming"
  /\ result[1][i].bodyOpen
  /\ result[1][i].sent < PairChunks
  /\ result' = Some([result[1] EXCEPT ![i].inQ = Append(@, subject[1][i].chunk),
                                      ![i].sent = @ + 1])
  /\ pairUnchanged

\* the handler of call i closes its body
PairClose(i) ==
  /\ result[1][i].stage = "streaming"
  /\ result[1][i].bodyOpen
  /\ result' = Some([result[1] EXCEPT ![i].bodyOpen = FALSE])
  /\ pairUnchanged

\* RateLimitStream.transform of call i
PairTransform(i) ==
  /\ result[1][i].inQ # <<>>
  /\ result[1][i].outQ = <<>>
  /\ result' = Some([result[1] EXCEPT
                       ![i].buffer = @ \o Head(result[1][i].inQ),
                       ![i].timeout = NextTimeout(@, now),
                       ![i].inQ = Tail(@)])
  /\ pairUnchanged

\* the timer of call i fires
PairTimerFire(i) ==
  /\ result[1][i].timeout # Null
  /\ LET b == result[1][i]
     IN  result' = Some([result[1] EXCEPT ![i] =
                           BridgePump([b EXCEPT !.outQ = Append(@, b.buffer),
                                                !.emitted = Append(@, b.buffer),
                                                !.buffer = <<>>,
                                                !.timeout = Null])])
  /\ pairUnchanged

\* RateLimitStream.flush of call i
PairFlush(i) ==
  /\ result[1][i].stage = "streaming"
  /\ ~result[1][i].bodyOpen
  /\ result[1][i].inQ = <<>>
  /\ ~result[1][i].flushed
  /\ LET b    == result[1][i]
         rest == IF b.buffer = <<>> THEN <<>> ELSE <<b.buffer>>
     IN  result' = Some([result[1] EXCEPT ![i] =
                           BridgePump([b EXCEPT !.outQ = @ \o rest,
                                                !.emitted = @ \o rest,
                                                !.buffer = <<>>,
                                                !.timeout = Null,
                                                !.flushed = TRUE])])
  /\ pairUnchanged

\* the platform answers the edit call of call i
PairEditResponse(i) ==
  /\ result[1][i].editing # Null
  /\ \E status \in PairStatuses :
       LET answered == [result[1] EXCEPT ![i].statuses = @ \cup {status},
                                         ![i].editing = Null]
           after    == IF AbortsOn(status) THEN Aborted(answered, i) ELSE answered
       IN  result' = Some([after EXCEPT ![i] = BridgePump(after[i])])
  /\ pairUnchanged

NextPair ==
  \E i \in 1..2 :
    \/ PairInvoke(i)
    \/ PairEnqueue(i)
    \/ PairClose(i)
    \/ PairTransform(i)
    \/ PairTimerFire(i)
    \/ PairFlush(i)
    \/ PairEditResponse(i)

SpecPair == InitPair /\ [][NextPair]_vars

(***************************************************************************)
(* Properties of two interactions at once, checked under SpecPair.         *)
(***************************************************************************)
\* the content of a message after its edit transform has taken these chunks
RECURSIVE ContentAfter(_, _)
ContentAfter(msg, chunks) ==
  IF chunks = <<>> THEN msg.content
  ELSE ContentAfter(EditTransform(msg, Decode(Head(chunks)), characterLimit), Tail(chunks))

\* n times the chunk
RECURSIVE Repeated(_, _)
Repeated(chunk, n) == IF n = 0 THEN <<>> ELSE chunk \o Repeated(chunk, n - 1)

\* C28: two interactions handled at the same time do not interfere: the
\* buffer and the flushes of each hold its own bytes only, its message is
\* made of its own flushes, every flush of it is edited or waits to be,
\* its edit calls carry its own token, and its signal is triggered exactly
\* when one of its own edit calls was answered 404.
C28_NoInterference ==
  \A i \in 1..2 :
    LET b == result[1][i]
    IN  /\ Flatten(b.emitted) \o b.buffer
             = Repeated(subject[1][i].chunk, b.sent - Len(b.inQ))
        /\ b.edited \o b.outQ = b.emitted
        /\ b.edits = Len(b.edited)
        /\ b.stage = "streaming"
             => b.message.content
                  = ContentAfter([NewMessage EXCEPT !.content = <<CR>>], b.edited)
        /\ b.editing # Null
             => /\ b.editing[1].token = subject[1][i].token
                /\ b.editing[1].body = b.message
        /\ (b.signal = "aborted") <=> (404 \in b.statuses)

\* the first interaction was answered 404, the second one has made all its
\* edits and its signal is not triggered
C28_Witness ==
  /\ result[1][1].signal = "aborted"
  /\ result[1][1].edits = 1
  /\ result[1][2].signal = "created"
  /\ result[1][2].statuses = {200}
  /\ result[1][2].flushed
  /\ result[1][2].editing = Null
  /\ result[1][2].edits = PairChunks
  /\ result[1][2].message.content = <<99, 100>>

=============================================================================
